---- MODULE Spec2Model ----
(***************************************************************************)
(* k6build: the build coordinator (pkg/builder), its in-process lock       *)
(* table, the file-backed and the S3-backed object stores and the          *)
(* S3-backed lock (pkg/lock), as state machines.                           *)
(*                                                                         *)
(* Every caller runs one operation: a Build on the coordinator, or a Put   *)
(* or Get directly on the store.  A sync.Mutex is named by the caller      *)
(* whose call allocated it (each lockArtifact / lockObject call allocates  *)
(* at most one mutex that reaches the table).  The bytes a Foundry         *)
(* invocation produces are tagged by the invoking caller, the bytes of a   *)
(* peer coordinator by 0, so that two independent builds of one id are     *)
(* never assumed to be byte-identical.                                     *)
(***************************************************************************)
EXTENDS Integers, Sequences, FiniteSets, TLC

\* Number of concurrent callers (goroutines / processes).
NumCallers == 3
\* Number of distinct artifact ids (fingerprints) in play.
NumIds == 2
\* Number of faults (I/O errors, failing remote calls, cancelled contexts,
\* failing compilations) the environment injects in one behaviour.
MaxFaults == 1

\* Number of processes that call S3Lock.Lock.
NumLockers == 3
\* The horizon of the clock, in minutes.
MaxTime == 6
\* DefaultLeaseDuration = 5 * time.Minute, in minutes.
DefaultLeaseDuration == 5

\* Number of Build calls made one after the other, and the length of a
\* dependency list.
MaxCalls == 2
MaxDeps == 2

Callers == 1..NumCallers
IDs == 1..NumIds

\* The ids a store has to refuse, numbered after the valid ones: the empty
\* string, an id with a path separator, and the relative components.
EmptyId == NumIds + 1
SlashId == NumIds + 2
DotId == NumIds + 3
DotDotId == NumIds + 4
InvalidIds == {EmptyId, SlashId, DotId, DotDotId}
StoreIds == IDs \cup InvalidIds

\* The text of an id, a sequence of tokens; a valid id is a plain name.
IdString(i) ==
    IF i = EmptyId THEN << >>
    ELSE IF i = SlashId THEN <<"dir", "/", "object">>
    ELSE IF i = DotId THEN <<".">>
    ELSE IF i = DotDotId THEN <<"..">>
    ELSE <<"object">>
Lockers == 1..NumLockers

\* The two ObjectStore implementations.
StoreKinds == {"file", "s3"}

VARIABLES
    storeKind,      \* which ObjectStore the Config carries
    pc,             \* per caller: position in its operation
    op,             \* per caller: "none", "build", "put" or "get"
    id,             \* per caller: the artifact id of its call (0: none yet)
    mutexes,        \* Builder.mutexes: id -> mutex (0: no entry)
    mtx,            \* per caller: the local mtx of lockArtifact (0: none)
    locked,         \* per builder mutex: the caller that locked it (0: free)
    objMutexes,     \* file Store.mutexes: id -> mutex (0: no entry)
    objMtx,         \* per caller: the local mtx of lockObject (0: none)
    objLocked,      \* per store mutex: the caller that locked it (0: free)
    fsDir,          \* file store: does <dir>/<id> exist
    fsData,         \* file store: <dir>/<id>/data
    fsSum,          \* file store: <dir>/<id>/checksum
    bucket,         \* S3 store: the object at key <id>
    artifactBuffer, \* per caller: the bytes to put (0: none)
    foundry,        \* per caller: "none", "built" or "failed"
    getRes,         \* per caller: what its last Store.Get returned
    putRes,         \* per caller: what its Store.Put returned
    result,         \* per caller: what its operation returned
    faults,         \* number of faults injected so far
    now,            \* S3 lock: the clock of the bucket, in minutes
    lockObjects,    \* S3 lock: the lock objects in the bucket
    lpc,            \* S3 lock, per locker: position in Lock / release
    lockID,         \* S3 lock, per locker: the uuid of its lockID (0: none)
    lockedId,       \* S3 lock, per locker: the id it locks (0: none)
    allowBuildSemvers, \* Builder.allowBuildSemvers
    history,        \* the Build calls made one after the other: request, outcome
    objects,        \* the ids the store of that Builder holds
    served,         \* API server: the requests handled: body, status, bodies written
    received,       \* build client: the replies classified: reply, error, artifact
    errv,           \* error wrapper: the error value built so far
    download,       \* file store: the last Download: URL, error, path opened
    ctxDone         \* per caller: "no", or "blocked" / "running": Build when ctx was cancelled

vars == <<storeKind, pc, op, id, mutexes, mtx, locked, objMutexes, objMtx,
          objLocked, fsDir, fsData, fsSum, bucket, artifactBuffer, foundry,
          getRes, putRes, result, faults,
          now, lockObjects, lpc, lockID, lockedId,
          allowBuildSemvers, history, objects,
          served, received, errv, download, ctxDone>>

\* The state of the S3-backed lock, and the state of everything else but
\* the fault count.
leaseVars == <<now, lockObjects, lpc, lockID, lockedId>>
requestVars == <<allowBuildSemvers, history, objects>>
apiVars == <<served, received, errv, download>>
callerVars == <<storeKind, pc, op, id, mutexes, mtx, locked, objMutexes, objMtx,
                objLocked, fsDir, fsData, fsSum, bucket, artifactBuffer, foundry,
                getRes, putRes, result>>
buildVars == <<requestVars, storeKind, pc, op, id, mutexes, mtx, locked, objMutexes, objMtx,
               objLocked, fsDir, fsData, fsSum, bucket, artifactBuffer, foundry,
               getRes, putRes, result>>

lockVars == <<mutexes, mtx, locked>>
objLockVars == <<objMutexes, objMtx, objLocked>>
fsVars == <<fsDir, fsData, fsSum>>

(***************************************************************************)
(* Values                                                                  *)
(***************************************************************************)

\* A file of the file store: absent, created but not completely written,
\* or holding the complete bytes `by`.
NoFile == [st |-> "absent", by |-> 0]
PartialFile(b) == [st |-> "partial", by |-> b]
FullFile(b) == [st |-> "full", by |-> b]

\* The empty string: the zero value of Object.Checksum, and the content of
\* a checksum file that was truncated but not yet written.
EmptyString == << >>

\* Hex SHA-256 of the bytes b.
Sha256(b) == <<"sha256", b>>

\* store.Object{} with a nil error / an error.  `cause` records why an error
\* was returned: "exists" (the id already holds an object), "missing" (no
\* object), "partial" (an object half written), "fault" (an I/O error, a
\* cancelled context or a failing remote call) ; "" for no error.
StoreOk(sum) == [err |-> "nil", cause |-> "", checksum |-> sum]
StoreErr(e, why) == [err |-> e, cause |-> why, checksum |-> EmptyString]
NoRes == [err |-> "none", cause |-> "", checksum |-> EmptyString]

\* k6build.Artifact with a nil error / k6build.NewWrappedError(e, reason).
Artifact(i, sum) == [err |-> "nil", reason |-> "nil", cause |-> "", id |-> i, checksum |-> sum]
WrappedError(e, r, why) == [err |-> e, reason |-> r, cause |-> why, id |-> 0, checksum |-> EmptyString]
NoResult == [err |-> "none", reason |-> "nil", cause |-> "", id |-> 0, checksum |-> EmptyString]

\* The nil error.  An error value is a tuple whose first element names its
\* Go type: <<"nil">>, <<"errorString", text, variable>> (errors.New),
\* <<"wrapError", err>> (fmt.Errorf("wrapped %w", err)) and
\* <<"Error", Err, Reason>> (*k6build.Error).
Nil == <<"nil">>

\* No Download was made yet.
NoDownload ==
    [done |-> FALSE, scheme |-> "", path |-> << >>, err |-> << >>, opened |-> << >>,
     found |-> FALSE]

(***************************************************************************)
(* Initial state: a fresh Builder on an empty store, every caller idle.    *)
(***************************************************************************)
Init ==
    /\ storeKind \in StoreKinds
    /\ pc = [c \in Callers |-> "idle"]
    /\ op = [c \in Callers |-> "none"]
    /\ id = [c \in Callers |-> 0]
    /\ mutexes = [i \in IDs |-> 0]
    /\ mtx = [c \in Callers |-> 0]
    /\ locked = [m \in Callers |-> 0]
    /\ objMutexes = [i \in StoreIds |-> 0]
    /\ objMtx = [c \in Callers |-> 0]
    /\ objLocked = [m \in Callers |-> 0]
    /\ fsDir = [i \in IDs |-> FALSE]
    /\ fsData = [i \in IDs |-> NoFile]
    /\ fsSum = [i \in IDs |-> NoFile]
    /\ bucket = [i \in StoreIds |-> NoFile]
    /\ artifactBuffer = [c \in Callers |-> 0]
    /\ foundry = [c \in Callers |-> "none"]
    /\ getRes = [c \in Callers |-> NoRes]
    /\ putRes = [c \in Callers |-> NoRes]
    /\ result = [c \in Callers |-> NoResult]
    /\ faults = 0
    /\ now = 0
    /\ lockObjects = {}
    /\ lpc = [p \in Lockers |-> "idle"]
    /\ lockID = [p \in Lockers |-> 0]
    /\ lockedId = [p \in Lockers |-> 0]
    /\ allowBuildSemvers = FALSE
    /\ history = << >>
    /\ objects = {}
    /\ served = << >>
    /\ received = << >>
    /\ errv = Nil
    /\ download = NoDownload
    /\ ctxDone = [c \in Callers |-> "no"]

\* The environment makes the current call of a collaborator fail / lets it
\* run undisturbed.
Fault == faults < MaxFaults /\ faults' = faults + 1
NoFault == faults' = faults

(***************************************************************************)
(* Builder.Build, from the fingerprint on (builder.go:161-203)             *)
(***************************************************************************)

\* Callers are numbered in the order in which their calls arrive, and ids in
\* the order in which they are first asked for.
Arrives(c, i) ==
    /\ pc[c] = "idle"
    /\ \A b \in Callers : b < c => pc[b] # "idle"
    /\ \A j \in IDs : (i \in IDs /\ j < i) => \E b \in Callers : id[b] = j

\* Build is entered with a request whose fingerprint is i.
StartBuild(c, i) ==
    /\ Arrives(c, i)
    /\ pc' = [pc EXCEPT ![c] = "lockArtifact"]
    /\ op' = [op EXCEPT ![c] = "build"]
    /\ id' = [id EXCEPT ![c] = i]
    /\ UNCHANGED <<apiVars, ctxDone, requestVars, leaseVars, storeKind, lockVars, objLockVars, fsVars, bucket,
                   artifactBuffer, foundry, getRes, putRes, result, faults>>

\* lockArtifact with one mutex for every id: the table is keyed by a constant.
lockArtifact_OneMutex(c) ==
    /\ pc[c] = "lockArtifact"
    /\ IF mutexes[1] = 0
       THEN /\ mutexes' = [mutexes EXCEPT ![1] = c]
            /\ mtx' = [mtx EXCEPT ![c] = c]
       ELSE /\ mtx' = [mtx EXCEPT ![c] = mutexes[1]]
            /\ UNCHANGED mutexes
    /\ pc' = [pc EXCEPT ![c] = "mtxLock"]
    /\ UNCHANGED <<apiVars, ctxDone, requestVars, leaseVars, storeKind, op, id, locked, objLockVars, fsVars, bucket,
                   artifactBuffer, foundry, getRes, putRes, result, faults>>

\* lockArtifact, first half: value, _ := b.mutexes.LoadOrStore(id, &sync.Mutex{})
lockArtifact(c) ==
    /\ pc[c] = "lockArtifact"
    /\ IF mutexes[id[c]] = 0
       THEN /\ mutexes' = [mutexes EXCEPT ![id[c]] = c]
            /\ mtx' = [mtx EXCEPT ![c] = c]
       ELSE /\ mtx' = [mtx EXCEPT ![c] = mutexes[id[c]]]
            /\ UNCHANGED mutexes
    /\ pc' = [pc EXCEPT ![c] = "mtxLock"]
    /\ UNCHANGED <<apiVars, ctxDone, requestVars, leaseVars, storeKind, op, id, locked, objLockVars, fsVars, bucket,
                   artifactBuffer, foundry, getRes, putRes, result, faults>>

\* sync.Mutex.Lock blocks while the mutex is locked.
MutexFree_NoWait(m) == TRUE
MutexFree(m) == locked[m] = 0

\* lockArtifact, second half: mtx.Lock()
mtxLock(c) ==
    /\ pc[c] = "mtxLock"
    /\ MutexFree(mtx[c])
    /\ locked' = [locked EXCEPT ![mtx[c]] = c]
    /\ pc' = [pc EXCEPT ![c] = "get"]
    /\ UNCHANGED <<apiVars, ctxDone, requestVars, leaseVars, storeKind, op, id, mutexes, mtx, objLockVars, fsVars, bucket,
                   artifactBuffer, foundry, getRes, putRes, result, faults>>

\* Where Build goes when it returns r after lockArtifact: `defer unlock()`
\* runs the release handle on every return.
ExitPc_NoDefer(r) == IF r.err = "nil" THEN "unlock" ELSE "done"
ExitPc(r) == "unlock"

\* Build returns r (the deferred unlock is still to run).
BuildReturns(c, r) ==
    /\ result' = [result EXCEPT ![c] = r]
    /\ pc' = [pc EXCEPT ![c] = ExitPc(r)]

\* A direct Store.Put / Store.Get call returns r to its caller.
StoreCallReturns(c, r) ==
    /\ result' = [result EXCEPT ![c] =
                     [err |-> r.err, reason |-> "nil", cause |-> r.cause,
                      id |-> IF r.err = "nil" THEN id[c] ELSE 0,
                      checksum |-> r.checksum]]
    /\ pc' = [pc EXCEPT ![c] = "done"]

\* Store.Get returned r, in a Build that compiles after any error of Get.
GetReturns_AnyErrorBuilds(c, r) ==
    /\ getRes' = [getRes EXCEPT ![c] = r]
    /\ IF op[c] = "build"
       THEN IF r.err = "nil"
            THEN BuildReturns(c, Artifact(id[c], r.checksum))
            ELSE /\ pc' = [pc EXCEPT ![c] = "foundry"]
                 /\ UNCHANGED result
       ELSE StoreCallReturns(c, r)

\* Store.Get returned r: builder.go:164-177.
GetReturns(c, r) ==
    /\ getRes' = [getRes EXCEPT ![c] = r]
    /\ IF op[c] = "build"
       THEN IF r.err = "nil"
            THEN BuildReturns(c, Artifact(id[c], r.checksum))
            ELSE IF r.err = "ErrObjectNotFound"
                 THEN /\ pc' = [pc EXCEPT ![c] = "foundry"]
                      /\ UNCHANGED result
                 ELSE BuildReturns(c, WrappedError("ErrAccessingArtifact", r.err, r.cause))
       ELSE StoreCallReturns(c, r)

\* b.builder.Build(...) succeeds and fills artifactBuffer: builder.go:179-180.
FoundryBuilds(c) ==
    /\ pc[c] = "foundry"
    /\ foundry' = [foundry EXCEPT ![c] = "built"]
    /\ artifactBuffer' = [artifactBuffer EXCEPT ![c] = c]
    /\ pc' = [pc EXCEPT ![c] = "put"]
    /\ UNCHANGED <<apiVars, ctxDone, requestVars, leaseVars, storeKind, op, id, lockVars, objLockVars, fsVars, bucket,
                   getRes, putRes, result, faults>>

\* b.builder.Build(...) returns an error: builder.go:181-183.
FoundryFails(c) ==
    /\ pc[c] = "foundry"
    /\ Fault
    /\ foundry' = [foundry EXCEPT ![c] = "failed"]
    /\ BuildReturns(c, WrappedError("ErrAccessingArtifact", "foundry", "fault"))
    /\ UNCHANGED <<apiVars, ctxDone, requestVars, leaseVars, storeKind, op, id, lockVars, objLockVars, fsVars, bucket,
                   artifactBuffer, getRes, putRes>>

\* Store.Put returned r: builder.go:191-202.
PutReturns(c, r) ==
    IF op[c] = "build"
    THEN IF r.err = "nil"
         THEN BuildReturns(c, Artifact(id[c], r.checksum))
         ELSE BuildReturns(c, WrappedError("ErrAccessingArtifact", r.err, r.cause))
    ELSE StoreCallReturns(c, r)

\* The release handle without b.mutexes.Delete(id).
unlock_KeepsEntry(c) ==
    /\ pc[c] = "unlock"
    /\ pc' = [pc EXCEPT ![c] = "mtxUnlock"]
    /\ UNCHANGED <<apiVars, ctxDone, requestVars, leaseVars, storeKind, op, id, lockVars, objLockVars, fsVars, bucket,
                   artifactBuffer, foundry, getRes, putRes, result, faults>>

\* The release handle, first half: b.mutexes.Delete(id)
unlock(c) ==
    /\ pc[c] = "unlock"
    /\ mutexes' = [mutexes EXCEPT ![id[c]] = 0]
    /\ pc' = [pc EXCEPT ![c] = "mtxUnlock"]
    /\ UNCHANGED <<apiVars, ctxDone, requestVars, leaseVars, storeKind, op, id, mtx, locked, objLockVars, fsVars, bucket,
                   artifactBuffer, foundry, getRes, putRes, result, faults>>

\* The release handle, second half: mtx.Unlock(); Build has returned.
mtxUnlock(c) ==
    /\ pc[c] = "mtxUnlock"
    /\ locked' = [locked EXCEPT ![mtx[c]] = 0]
    /\ mtx' = [mtx EXCEPT ![c] = 0]
    /\ pc' = [pc EXCEPT ![c] = "done"]
    /\ UNCHANGED <<apiVars, ctxDone, requestVars, leaseVars, storeKind, op, id, mutexes, objLockVars, fsVars, bucket,
                   artifactBuffer, foundry, getRes, putRes, result, faults>>

(***************************************************************************)
(* File store (pkg/store/file/file.go)                                     *)
(***************************************************************************)

\* Store.Get on the file store, os.Stat(objectDir): file.go:250-260.
FileGetStat(c) ==
    /\ storeKind = "file"
    /\ pc[c] = "get"
    /\ \/ /\ ~fsDir[id[c]]
          /\ GetReturns(c, StoreErr("ErrObjectNotFound", "missing"))
          /\ NoFault
       \/ /\ Fault
          /\ GetReturns(c, StoreErr("ErrAccessingObject", "fault"))
       \/ /\ fsDir[id[c]]
          /\ pc' = [pc EXCEPT ![c] = "getRead"]
          /\ UNCHANGED <<getRes, result>>
          /\ NoFault
    /\ UNCHANGED <<apiVars, ctxDone, requestVars, leaseVars, storeKind, op, id, lockVars, objLockVars, fsVars, bucket,
                   artifactBuffer, foundry, putRes>>

\* What os.ReadFile gives for a checksum file f that exists.
ReadSum(f) == IF f.st = "full" THEN Sha256(f.by) ELSE EmptyString

\* Store.Get on the file store, os.ReadFile(checksum): file.go:262-272.
FileGetRead(c) ==
    /\ pc[c] = "getRead"
    /\ \/ /\ fsSum[id[c]].st = "absent"
          /\ GetReturns(c, StoreErr("ErrAccessingObject", "partial"))
          /\ NoFault
       \/ /\ Fault
          /\ GetReturns(c, StoreErr("ErrAccessingObject", "fault"))
       \/ /\ fsSum[id[c]].st # "absent"
          /\ GetReturns(c, StoreOk(ReadSum(fsSum[id[c]])))
          /\ NoFault
    /\ UNCHANGED <<apiVars, ctxDone, requestVars, leaseVars, storeKind, op, id, lockVars, objLockVars, fsVars, bucket,
                   artifactBuffer, foundry, putRes>>

\* The tests of the id at the entry of Put: file.go:194-200.
IdAccepted(i) ==
    /\ IdString(i) # << >>
    /\ \A n \in 1..Len(IdString(i)) : IdString(i)[n] # "/"

\* Store.Put on the file store: the tests of the id, then lockObject, first
\* half: f.mutexes.LoadOrStore(id, &sync.Mutex{}).
FilePutLockObject(c) ==
    /\ storeKind = "file"
    /\ pc[c] = "put"
    /\ IF ~IdAccepted(id[c])
       THEN /\ putRes' = [putRes EXCEPT ![c] = StoreErr("ErrCreatingObject", "invalid")]
            /\ PutReturns(c, StoreErr("ErrCreatingObject", "invalid"))
            /\ UNCHANGED <<objMutexes, objMtx>>
       ELSE /\ IF objMutexes[id[c]] = 0
               THEN /\ objMutexes' = [objMutexes EXCEPT ![id[c]] = c]
                    /\ objMtx' = [objMtx EXCEPT ![c] = c]
               ELSE /\ objMtx' = [objMtx EXCEPT ![c] = objMutexes[id[c]]]
                    /\ UNCHANGED objMutexes
            /\ pc' = [pc EXCEPT ![c] = "putLock"]
            /\ UNCHANGED <<putRes, result>>
    /\ UNCHANGED <<apiVars, ctxDone, requestVars, leaseVars, storeKind, op, id, lockVars, objLocked, fsVars, bucket,
                   artifactBuffer, foundry, getRes, faults>>

\* lockObject, second half: mtx.Lock(): file.go:328.
FilePutLock(c) ==
    /\ pc[c] = "putLock"
    /\ objLocked[objMtx[c]] = 0
    /\ objLocked' = [objLocked EXCEPT ![objMtx[c]] = c]
    /\ pc' = [pc EXCEPT ![c] = "putStat"]
    /\ UNCHANGED <<apiVars, ctxDone, requestVars, leaseVars, storeKind, op, id, lockVars, objMutexes, objMtx, fsVars, bucket,
                   artifactBuffer, foundry, getRes, putRes, result, faults>>

\* The error the file store's Put returns when os.Stat finds the object
\* directory: file.go:208-210.
FileExistsErr == "ErrCreatingObject"

\* A step of Put fails: the error is recorded, the deferred unlock is next.
FilePutFails(c, e, why) ==
    /\ putRes' = [putRes EXCEPT ![c] = StoreErr(e, why)]
    /\ pc' = [pc EXCEPT ![c] = "putUnlock"]

\* Whether objectDir = filepath.Join(f.dir, id) exists: the directory of the
\* object for a plain name, f.dir itself for "." and its parent for "..".
ObjectDirExists(i) == IF i \in IDs THEN fsDir[i] ELSE TRUE

\* os.Stat(objectDir): anything but ErrNotExist is "object already exists".
FilePutStat(c) ==
    /\ pc[c] = "putStat"
    /\ \/ /\ ObjectDirExists(id[c])
          /\ FilePutFails(c, FileExistsErr, "exists")
          /\ NoFault
       \/ /\ Fault
          /\ FilePutFails(c, FileExistsErr, "fault")
       \/ /\ ~ObjectDirExists(id[c])
          /\ pc' = [pc EXCEPT ![c] = "putMkdir"]
          /\ UNCHANGED putRes
          /\ NoFault
    /\ UNCHANGED <<apiVars, ctxDone, requestVars, leaseVars, storeKind, op, id, lockVars, objLockVars, fsVars, bucket,
                   artifactBuffer, foundry, getRes, result>>

\* os.MkdirAll(objectDir): file.go:213-216.
FilePutMkdir(c) ==
    /\ pc[c] = "putMkdir"
    /\ \/ /\ fsDir' = [fsDir EXCEPT ![id[c]] = TRUE]
          /\ pc' = [pc EXCEPT ![c] = "putCreate"]
          /\ UNCHANGED putRes
          /\ NoFault
       \/ /\ Fault
          /\ FilePutFails(c, "ErrCreatingObject", "fault")
          /\ UNCHANGED fsDir
    /\ UNCHANGED <<apiVars, ctxDone, requestVars, leaseVars, storeKind, op, id, lockVars, objLockVars, fsData, fsSum, bucket,
                   artifactBuffer, foundry, getRes, result>>

\* os.Create(data) creates or truncates the data file: file.go:218-221.
FilePutCreate(c) ==
    /\ pc[c] = "putCreate"
    /\ \/ /\ fsData' = [fsData EXCEPT ![id[c]] = PartialFile(artifactBuffer[c])]
          /\ pc' = [pc EXCEPT ![c] = "putCopy"]
          /\ UNCHANGED putRes
          /\ NoFault
       \/ /\ Fault
          /\ FilePutFails(c, "ErrCreatingObject", "fault")
          /\ UNCHANGED fsData
    /\ UNCHANGED <<apiVars, ctxDone, requestVars, leaseVars, storeKind, op, id, lockVars, objLockVars, fsDir, fsSum, bucket,
                   artifactBuffer, foundry, getRes, result>>

\* io.Copy(objectFile, content): file.go:226-230.
FilePutCopy(c) ==
    /\ pc[c] = "putCopy"
    /\ \/ /\ fsData' = [fsData EXCEPT ![id[c]] = FullFile(artifactBuffer[c])]
          /\ pc' = [pc EXCEPT ![c] = "putSumOpen"]
          /\ UNCHANGED putRes
          /\ NoFault
       \/ /\ Fault
          /\ FilePutFails(c, "ErrCreatingObject", "fault")
          /\ UNCHANGED fsData
    /\ UNCHANGED <<apiVars, ctxDone, requestVars, leaseVars, storeKind, op, id, lockVars, objLockVars, fsDir, fsSum, bucket,
                   artifactBuffer, foundry, getRes, result>>

\* os.WriteFile(checksum), the open: O_WRONLY|O_CREATE|O_TRUNC: file.go:236.
FilePutSumOpen(c) ==
    /\ pc[c] = "putSumOpen"
    /\ \/ /\ fsSum' = [fsSum EXCEPT ![id[c]] = PartialFile(artifactBuffer[c])]
          /\ pc' = [pc EXCEPT ![c] = "putSumWrite"]
          /\ UNCHANGED putRes
          /\ NoFault
       \/ /\ Fault
          /\ FilePutFails(c, "ErrCreatingObject", "fault")
          /\ UNCHANGED fsSum
    /\ UNCHANGED <<apiVars, ctxDone, requestVars, leaseVars, storeKind, op, id, lockVars, objLockVars, fsDir, fsData, bucket,
                   artifactBuffer, foundry, getRes, result>>

\* os.WriteFile(checksum), the write; then Put returns the Object:
\* file.go:233-246.
FilePutSumWrite(c) ==
    /\ pc[c] = "putSumWrite"
    /\ \/ /\ fsSum' = [fsSum EXCEPT ![id[c]] = FullFile(artifactBuffer[c])]
          /\ putRes' = [putRes EXCEPT ![c] = StoreOk(Sha256(artifactBuffer[c]))]
          /\ pc' = [pc EXCEPT ![c] = "putUnlock"]
          /\ NoFault
       \/ /\ Fault
          /\ FilePutFails(c, "ErrCreatingObject", "fault")
          /\ UNCHANGED fsSum
    /\ UNCHANGED <<apiVars, ctxDone, requestVars, leaseVars, storeKind, op, id, lockVars, objLockVars, fsDir, fsData, bucket,
                   artifactBuffer, foundry, getRes, result>>

\* The deferred unlock of Put: f.mutexes.Delete(id); mtx.Unlock()
\* (file.go:330-333); then Put returns.  Unlock commutes with every step of
\* another caller that can come between the two, so they are one step.
FilePutUnlock(c) ==
    /\ pc[c] = "putUnlock"
    /\ objMutexes' = [objMutexes EXCEPT ![id[c]] = 0]
    /\ objLocked' = [objLocked EXCEPT ![objMtx[c]] = 0]
    /\ objMtx' = [objMtx EXCEPT ![c] = 0]
    /\ PutReturns(c, putRes[c])
    /\ UNCHANGED <<apiVars, ctxDone, requestVars, leaseVars, storeKind, op, id, lockVars, fsVars, bucket,
                   artifactBuffer, foundry, getRes, putRes, faults>>

(***************************************************************************)
(* S3 store (the s3 package in pkg/store/file/file_test.go:258-441)        *)
(***************************************************************************)

\* Store.Get: GetObjectAttributes, then getDownloadURL.
S3Get(c) ==
    /\ storeKind = "s3"
    /\ pc[c] = "get"
    /\ \/ /\ bucket[id[c]].st = "absent"
          /\ GetReturns(c, StoreErr("ErrObjectNotFound", "missing"))
          /\ NoFault
       \/ /\ Fault
          /\ GetReturns(c, StoreErr("ErrAccessingObject", "fault"))
       \/ /\ bucket[id[c]].st = "full"
          /\ GetReturns(c, StoreOk(Sha256(bucket[id[c]].by)))
          /\ NoFault
    /\ UNCHANGED <<apiVars, ctxDone, requestVars, leaseVars, storeKind, op, id, lockVars, objLockVars, fsVars, bucket,
                   artifactBuffer, foundry, putRes>>

\* Store.Put: the test of the id, PutObject with IfNoneMatch "*", then
\* getDownloadURL.
S3Put(c) ==
    /\ storeKind = "s3"
    /\ pc[c] = "put"
    /\ \E r \in {StoreOk(Sha256(artifactBuffer[c])),
                 StoreErr("ErrCreatingObject", "invalid"),
                 StoreErr("ErrDuplicateObject", "exists"),
                 StoreErr("ErrCreatingObject", "fault")} :
          /\ IdString(id[c]) = << >> <=> r.cause = "invalid"
          /\ \/ /\ r.cause = "invalid"             \* id == ""
                /\ UNCHANGED bucket
             \/ /\ bucket[id[c]].st # "absent"     \* PreconditionFailed
                /\ r.cause = "exists"
                /\ UNCHANGED bucket
             \/ /\ r.cause = "fault"               \* PutObject fails
                /\ UNCHANGED bucket
             \/ /\ bucket[id[c]].st = "absent"     \* stored; presigning may fail
                /\ r.cause \notin {"exists", "invalid"}
                /\ bucket' = [bucket EXCEPT ![id[c]] = FullFile(artifactBuffer[c])]
          /\ IF r.cause = "fault" THEN Fault ELSE NoFault
          /\ putRes' = [putRes EXCEPT ![c] = r]
          /\ PutReturns(c, r)
    /\ UNCHANGED <<apiVars, ctxDone, requestVars, leaseVars, storeKind, op, id, lockVars, objLockVars, fsVars,
                   artifactBuffer, foundry, getRes>>

(***************************************************************************)
(* Environment                                                             *)
(***************************************************************************)

\* A coordinator in another process, sharing the store, persists id i.
PeerPut(i) ==
    /\ IF storeKind = "file"
       THEN /\ ~fsDir[i]
            /\ fsDir' = [fsDir EXCEPT ![i] = TRUE]
            /\ fsData' = [fsData EXCEPT ![i] = FullFile(0)]
            /\ fsSum' = [fsSum EXCEPT ![i] = FullFile(0)]
            /\ UNCHANGED bucket
       ELSE /\ bucket[i].st = "absent"
            /\ bucket' = [bucket EXCEPT ![i] = FullFile(0)]
            /\ UNCHANGED fsVars
    /\ UNCHANGED <<apiVars, ctxDone, requestVars, leaseVars, storeKind, pc, op, id, lockVars, objLockVars,
                   artifactBuffer, foundry, getRes, putRes, result, faults>>

\* A client calls Store.Put(id, content) directly.
StartPut(c, i) ==
    /\ Arrives(c, i)
    /\ pc' = [pc EXCEPT ![c] = "put"]
    /\ op' = [op EXCEPT ![c] = "put"]
    /\ id' = [id EXCEPT ![c] = i]
    /\ artifactBuffer' = [artifactBuffer EXCEPT ![c] = c]
    /\ UNCHANGED <<apiVars, ctxDone, requestVars, leaseVars, storeKind, lockVars, objLockVars, fsVars, bucket,
                   foundry, getRes, putRes, result, faults>>

\* A client calls Store.Get(id) directly.
StartGet(c, i) ==
    /\ Arrives(c, i)
    /\ pc' = [pc EXCEPT ![c] = "get"]
    /\ op' = [op EXCEPT ![c] = "get"]
    /\ id' = [id EXCEPT ![c] = i]
    /\ UNCHANGED <<apiVars, ctxDone, requestVars, leaseVars, storeKind, lockVars, objLockVars, fsVars, bucket,
                   artifactBuffer, foundry, getRes, putRes, result, faults>>

(***************************************************************************)
(* MemoryStore (pkg/store/server/server_test.go)                           *)
(*                                                                         *)
(* The two maps of the MemoryStore, objects and content, are written       *)
(* together: `bucket` holds, per id, the bytes of the entry.               *)
(***************************************************************************)

\* MemoryStore.Get: the entry of the map, or ErrObjectNotFound.
MemoryStoreGet(c) ==
    /\ pc[c] = "get"
    /\ IF bucket[id[c]].st = "absent"
       THEN GetReturns(c, StoreErr("ErrObjectNotFound", "missing"))
       ELSE GetReturns(c, StoreOk(Sha256(bucket[id[c]].by)))
    /\ UNCHANGED <<apiVars, ctxDone, requestVars, leaseVars, storeKind, op, id, lockVars, objLockVars, fsVars, bucket,
                   artifactBuffer, foundry, putRes, faults>>

\* MemoryStore.Put: reads the content and assigns the entry of the id.
MemoryStorePut(c) ==
    /\ pc[c] = "put"
    /\ \/ /\ Fault                               \* buffer.ReadFrom fails
          /\ putRes' = [putRes EXCEPT ![c] = StoreErr("ErrCreatingObject", "fault")]
          /\ PutReturns(c, StoreErr("ErrCreatingObject", "fault"))
          /\ UNCHANGED bucket
       \/ /\ NoFault
          /\ bucket' = [bucket EXCEPT ![id[c]] = FullFile(artifactBuffer[c])]
          /\ putRes' = [putRes EXCEPT ![c] = StoreOk(Sha256(artifactBuffer[c]))]
          /\ PutReturns(c, StoreOk(Sha256(artifactBuffer[c])))
    /\ UNCHANGED <<apiVars, ctxDone, requestVars, leaseVars, storeKind, op, id, lockVars, objLockVars, fsVars,
                   artifactBuffer, foundry, getRes>>

(***************************************************************************)
(* S3-backed lock (pkg/lock/s3.go)                                         *)
(***************************************************************************)

\* The least element of a non-empty set of lock objects, by key.
MinKey(S) == CHOOSE x \in S : \A y \in S : x.key <= y.key

\* ListObjectsV2 returns the objects in ascending order of their keys.
RECURSIVE KeyOrder(_)
KeyOrder(S) ==
    IF S = {} THEN << >> ELSE <<MinKey(S)>> \o KeyOrder(S \ {MinKey(S)})

\* result.Contents for the prefix "<id>.lock.": s3.go:98-106.
ListObjectsV2(i) == KeyOrder({o \in lockObjects : o.id = i})

\* One pass of the insertion sort that sort.Slice runs on a slice of at
\* most 12 elements: x moves left while it is Before its left neighbour.
RECURSIVE Insert(_, _)
Insert(sorted, x) ==
    IF sorted = << >> THEN <<x>>
    ELSE IF x.ts < sorted[Len(sorted)].ts
         THEN Insert(SubSeq(sorted, 1, Len(sorted) - 1), x) \o <<sorted[Len(sorted)]>>
         ELSE Append(sorted, x)

\* The listing left in the order of the keys.
SortByLastModified_Unsorted(locks) == locks

\* sort.Slice(locks, LastModified.Before): s3.go:107-109.
RECURSIVE SortByLastModified(_)
SortByLastModified(locks) ==
    IF locks = << >> THEN << >>
    ELSE Insert(SortByLastModified(SubSeq(locks, 1, Len(locks) - 1)), locks[Len(locks)])

\* l.LastModified.After(locks[last].LastModified.Add(-DefaultLeaseDuration))
NotExpired(l, last) == l.ts > last.ts - DefaultLeaseDuration

\* The index `first` after the loop of s3.go:118-126.
FirstNotExpired(locks) ==
    CHOOSE f \in 1..Len(locks) :
        /\ NotExpired(locks[f], locks[Len(locks)])
        /\ \A g \in 1..(f - 1) : ~NotExpired(locks[g], locks[Len(locks)])

\* The two returns of `release` in the loop: s3.go:111-113 and 128-130.
Granted(locks, k) ==
    \/ Len(locks) = 1
    \/ locks[FirstNotExpired(locks)].key = k

\* Lock(ctx, id) starts: a fresh uuid k, and PutObject of the lock object
\* (s3.go:70-81).  Lockers are numbered in the order of their calls.
LockPutObject(p, i, k) ==
    /\ lpc[p] = "idle"
    /\ \A q \in Lockers : q < p => lpc[q] # "idle"
    /\ \A q \in Lockers : lockID[q] # k
    /\ lockID' = [lockID EXCEPT ![p] = k]
    /\ lockedId' = [lockedId EXCEPT ![p] = i]
    /\ \/ /\ NoFault
          /\ lockObjects' = lockObjects \cup {[id |-> i, key |-> k, ts |-> now]}
          /\ lpc' = [lpc EXCEPT ![p] = "list"]
       \/ /\ Fault
          /\ lpc' = [lpc EXCEPT ![p] = "failed"]
          /\ UNCHANGED lockObjects
    /\ UNCHANGED <<apiVars, ctxDone, buildVars, now>>

\* One round of the loop that ends the call: the listing fails and Lock
\* returns the error, or the lock is granted and Lock returns release.
\* (A round that does neither sleeps and lists again.)
LockList(p) ==
    /\ lpc[p] = "list"
    /\ \/ /\ Fault
          /\ lpc' = [lpc EXCEPT ![p] = "failed"]
       \/ /\ NoFault
          /\ Granted(SortByLastModified(ListObjectsV2(lockedId[p])), lockID[p])
          /\ lpc' = [lpc EXCEPT ![p] = "held"]
    /\ UNCHANGED <<apiVars, ctxDone, buildVars, now, lockObjects, lockID, lockedId>>

\* release(ctx): DeleteObject of the caller's lockID: s3.go:83-92.
LockRelease(p) ==
    /\ lpc[p] = "held"
    /\ \/ /\ NoFault
          /\ lockObjects' = {o \in lockObjects : ~(o.id = lockedId[p] /\ o.key = lockID[p])}
          /\ lpc' = [lpc EXCEPT ![p] = "released"]
       \/ /\ Fault
          /\ lpc' = [lpc EXCEPT ![p] = "releaseFailed"]
          /\ UNCHANGED lockObjects
    /\ UNCHANGED <<apiVars, ctxDone, buildVars, now, lockID, lockedId>>

\* A minute passes.
Tick ==
    /\ now < MaxTime
    /\ now' = now + 1
    /\ UNCHANGED <<apiVars, ctxDone, buildVars, faults, lockObjects, lpc, lockID, lockedId>>

(***************************************************************************)
(* Builder.Build as a function of its request (builder.go:104-203)         *)
(*                                                                         *)
(* A string is a sequence of tokens (an operator character, a version, a   *)
(* separator, a tag); an error is the chain of its kinds, outermost first: *)
(* << >> is nil and NewWrappedError(K, reason) is <<K>> \o reason.          *)
(***************************************************************************)

\* The character class of opRe, [=|~|>|<|\^|>=|<=|!=]: one character.
OpChars == {"=", "|", "~", ">", "<", "^", "!"}
\* The character class of buildRe, [+|-|]: '+', and the range from '|' to '|'.
BuildSeps == {"+", "|"}
\* Strings that match verRe, and strings that match the build group.
VersionTokens == {"v0.0.0", "v0.1.0", "v0.2.0"}
Tags == {"abc"}

NoMatch == [op |-> "", version |-> "", build |-> "", found |-> FALSE]

\* The submatches of constrainRe (opRe + verRe + buildRe) when the match
\* starts at position p of s: the operator is optional and taken if there.
MatchAt(s, p) ==
    IF /\ p + 3 <= Len(s)
       /\ s[p] \in OpChars /\ s[p + 1] \in VersionTokens
       /\ s[p + 2] \in BuildSeps /\ s[p + 3] \in Tags
    THEN [op |-> s[p], version |-> s[p + 1], build |-> s[p + 3], found |-> TRUE]
    ELSE IF /\ p + 2 <= Len(s)
            /\ s[p] \in VersionTokens /\ s[p + 1] \in BuildSeps /\ s[p + 2] \in Tags
         THEN [op |-> "", version |-> s[p], build |-> s[p + 2], found |-> TRUE]
         ELSE NoMatch

\* constrainRe.FindStringSubmatch(constrain): the leftmost match, anywhere
\* in the string (the expression is not anchored).
FindStringSubmatch(s) ==
    IF \E p \in 1..Len(s) : MatchAt(s, p).found
    THEN MatchAt(s, CHOOSE p \in 1..Len(s) :
                        /\ MatchAt(s, p).found
                        /\ \A q \in 1..(p - 1) : ~MatchAt(s, q).found)
    ELSE NoMatch

\* hasBuildMetadata(constrain): the build metadata ("" if the constraint has
\* none) and the error: builder.go:223-251.
hasBuildMetadata(constrain) ==
    LET matches == FindStringSubmatch(constrain) IN
    IF ~matches.found THEN [build |-> "", err |-> << >>]
    ELSE IF matches.op # "" /\ matches.op # "="
         THEN [build |-> "", err |-> <<"ErrInvalidParameters", "only exact match is allowed">>]
    ELSE IF matches.version # "v0.0.0"
         THEN [build |-> "", err |-> <<"ErrInvalidParameters", "must start with v0.0.0">>]
    ELSE [build |-> matches.build, err |-> << >>]

\* The catalog of the tests (catalogJSON): the versions of each name.
Catalog ==
    [n \in {"k6", "k6/x/ext", "k6/x/ext2"} |->
        IF n = "k6/x/ext2" THEN {"v0.1.0"} ELSE {"v0.1.0", "v0.2.0"}]

\* The order of the versions.
VersionNumber(v) == IF v = "v0.0.0" THEN 0 ELSE IF v = "v0.1.0" THEN 1 ELSE 2

\* The versions of vs that satisfy the constraint.
Satisfying(vs, constrains) ==
    IF constrains = <<"*">> THEN vs
    ELSE IF Len(constrains) = 1 /\ constrains[1] \in VersionTokens
         THEN {v \in vs : v = constrains[1]}
    ELSE IF Len(constrains) = 2 /\ constrains[1] = "=" /\ constrains[2] \in VersionTokens
         THEN {v \in vs : v = constrains[2]}
    ELSE IF Len(constrains) = 2 /\ constrains[1] = ">" /\ constrains[2] \in VersionTokens
         THEN {v \in vs : VersionNumber(v) > VersionNumber(constrains[2])}
    ELSE IF Len(constrains) = 3 /\ constrains[1] = ">" /\ constrains[2] = "="
            /\ constrains[3] \in VersionTokens
         THEN {v \in vs : VersionNumber(v) >= VersionNumber(constrains[3])}
    ELSE {}

\* Catalog.Resolve(ctx, Dependency{name, constrains}): the greatest version
\* that satisfies the constraint, or an error.
Resolve(name, constrains) ==
    IF name \notin DOMAIN Catalog
    THEN [version |-> "", err |-> <<"ErrUnknownDependency">>]
    ELSE LET ok == Satisfying(Catalog[name], constrains) IN
         IF ok = {}
         THEN [version |-> "", err |-> <<"ErrCannotSatisfy">>]
         ELSE [version |-> CHOOSE v \in ok :
                              \A w \in ok : VersionNumber(w) <= VersionNumber(v),
               err |-> << >>]

\* k6build.NewWrappedError(kind, reason), and errors.Is(err, kind) along
\* the chain that Unwrap follows.
NewWrappedError(kind, reason) == <<kind>> \o reason
ErrorsIs(err, kind) == \E n \in 1..Len(err) : err[n] = kind

\* k6foundry.ParsePlatform accepts "os/arch".
ValidPlatforms == {"linux/amd64", "linux/arm64"}

\* One pass of the insertion sort that sort.Slice runs on a short slice: d
\* moves left while its Name is less than the Name of its left neighbour.
\* Names are compared as strings: the rank of a name in that order.
NameRank(n) == IF n = "k6/x/ext" THEN 1 ELSE IF n = "k6/x/ext2" THEN 2 ELSE 3

RECURSIVE InsertByName(_, _)
InsertByName(sorted, d) ==
    IF sorted = << >> THEN <<d>>
    ELSE IF NameRank(d.name) < NameRank(sorted[Len(sorted)].name)
         THEN InsertByName(SubSeq(sorted, 1, Len(sorted) - 1), d) \o <<sorted[Len(sorted)]>>
         ELSE Append(sorted, d)

\* sort.Slice(deps, func(i, j) { return deps[i].Name < deps[j].Name }).
RECURSIVE SortByName(_)
SortByName(deps) ==
    IF deps = << >> THEN << >>
    ELSE InsertByName(SortByName(SubSeq(deps, 1, Len(deps) - 1)), deps[Len(deps)])

\* The loop of builder.go:142-150 returning the kind without the error of
\* the Catalog.
RECURSIVE ResolveDeps_KindOnly(_, _, _)
ResolveDeps_KindOnly(deps, n, acc) ==
    IF n > Len(deps) THEN acc
    ELSE LET m == Resolve(deps[n].name, deps[n].constraints)
             asked == acc.consulted \cup {deps[n].name}
         IN IF m.err # << >>
            THEN [acc EXCEPT !.consulted = asked, !.err = <<"ErrInvalidParameters">>]
            ELSE ResolveDeps_KindOnly(deps, n + 1,
                             [acc EXCEPT !.consulted = asked,
                                         !.resolved = (deps[n].name :> m.version) @@ @])

\* The loop of builder.go:142-150 from the n-th dependency on: the map
\* `resolved`, the names the Catalog was asked for, and the first error.
RECURSIVE ResolveDeps(_, _, _)
ResolveDeps(deps, n, acc) ==
    IF n > Len(deps) THEN acc
    ELSE LET m == Resolve(deps[n].name, deps[n].constraints)
             asked == acc.consulted \cup {deps[n].name}
         IN IF m.err # << >>
            THEN [acc EXCEPT !.consulted = asked,
                             !.err = NewWrappedError("ErrInvalidParameters", m.err)]
            ELSE ResolveDeps(deps, n + 1,
                             [acc EXCEPT !.consulted = asked,
                                         !.resolved = (deps[n].name :> m.version) @@ @])

\* The default string form of a Dependency under %s: {Name Constraints}.
DependencyString(d) == <<"{", d.name, " ">> \o d.constraints \o <<"}">>

\* hashData after the loop of builder.go:156-158, from the n-th dependency.
RECURSIVE HashDeps(_, _, _)
HashDeps(deps, n, resolved) ==
    IF n > Len(deps) THEN << >>
    ELSE <<":">> \o DependencyString(deps[n]) \o <<resolved[deps[n].name]>>
             \o HashDeps(deps, n + 1, resolved)

\* The hex SHA-1 of hashData: distinct inputs give distinct ids.
Sha1(hashData) == <<"sha1">> \o hashData

\* The id without the platform.
Fingerprint_NoPlatform(platform, k6Version, deps, resolved) ==
    Sha1(<<":k6", k6Version>> \o HashDeps(deps, 1, resolved))

\* The id of builder.go:152-159.
Fingerprint(platform, k6Version, deps, resolved) ==
    Sha1(<<platform, ":k6", k6Version>> \o HashDeps(deps, 1, resolved))

\* buildInfo.ModVersions[k6Mod.Path]: the revision the Foundry compiled for
\* the build metadata.
ActualVersion(build) == IF build = "abc" THEN "v0.0.0-20240614-abc" ELSE "v0.0.0-unknown"

\* The empty map, and k6build.Artifact{} returned with an error.
NoDependencies == [n \in {} |-> ""]
\* An error returned with the lock of the artifact taken.
Failure_Locked(err, sorted, asked) ==
    [err |-> err, id |-> << >>, dependencies |-> NoDependencies, deps |-> sorted,
     consulted |-> asked, locked |-> TRUE, hit |-> FALSE, built |-> FALSE,
     put |-> FALSE]
Failure(err, sorted, asked) ==
    [err |-> err, id |-> << >>, dependencies |-> NoDependencies, deps |-> sorted,
     consulted |-> asked, locked |-> FALSE, hit |-> FALSE, built |-> FALSE,
     put |-> FALSE]

\* Build from lockArtifact on, returning no dependencies on a store hit.
BuildLocked_HitWithoutDependencies(i, resolved, buildMetadata, sorted, asked, has) ==
    LET base == [Failure(<< >>, sorted, asked) EXCEPT !.locked = TRUE, !.id = i] IN
    IF has
    THEN [base EXCEPT !.hit = TRUE]
    ELSE [base EXCEPT !.built = TRUE, !.put = TRUE, !.dependencies = resolved]

\* Build from lockArtifact on (builder.go:161-202), for the id, the map
\* `resolved` and the build metadata of the request, when the Foundry and
\* the store do not fail (their failures are in the step-by-step model
\* above); `has` tells whether the store holds the id.
BuildLocked(i, resolved, buildMetadata, sorted, asked, has) ==
    LET base == [Failure(<< >>, sorted, asked) EXCEPT !.locked = TRUE, !.id = i] IN
    IF has
    THEN [base EXCEPT !.dependencies = resolved, !.hit = TRUE]
    ELSE [base EXCEPT !.built = TRUE, !.put = TRUE,
                      !.dependencies =
                          IF buildMetadata # ""
                          THEN ("k6" :> ActualVersion(buildMetadata)) @@ resolved
                          ELSE resolved]

\* Build(ctx, platform, k6Constrains, deps) on a Builder configured with
\* `allow` whose store holds the ids `held`: builder.go:104-203.
BuildOutcome(req, allow, held) ==
    LET sorted == SortByName(req.deps)
        bm == hasBuildMetadata(req.k6)
        viaCatalog == bm.build = ""
        k6Mod == IF viaCatalog THEN Resolve("k6", req.k6)
                 ELSE [version |-> bm.build, err |-> << >>]
        asked == IF viaCatalog THEN {"k6"} ELSE {}
    IN
    IF req.platform \notin ValidPlatforms
    THEN Failure(NewWrappedError("ErrInvalidParameters", <<"platform">>), req.deps, {})
    ELSE IF bm.err # << >> THEN Failure(bm.err, sorted, {})
    ELSE IF ~viaCatalog /\ ~allow
    THEN Failure(NewWrappedError("ErrInvalidParameters", <<"ErrBuildSemverNotAllowed">>),
                 sorted, {})
    ELSE IF k6Mod.err # << >>
    THEN Failure(NewWrappedError("ErrInvalidParameters", k6Mod.err), sorted, asked)
    ELSE LET r == ResolveDeps(sorted, 1,
                      [resolved |-> ("k6" :> k6Mod.version), consulted |-> asked,
                       err |-> << >>])
         IN IF r.err # << >> THEN Failure(r.err, sorted, r.consulted)
            ELSE LET i == Fingerprint(req.platform, k6Mod.version, sorted, r.resolved)
                 IN BuildLocked(i, r.resolved, bm.build, sorted, r.consulted,
                                i \in held)

\* The requests: platform, core constraint, dependency list.
K6Constraints ==
    {<<"v0.1.0">>, <<">", "v0.1.0">>, <<">", "v0.2.0">>,
     <<"v0.0.0", "+", "abc">>, <<">", "v0.0.0", "+", "abc">>,
     <<">", "=", "v0.0.0", "+", "abc">>, <<"v0.1.0", "+", "abc">>}
Dependencies ==
    [name : {"k6/x/ext", "k6/x/ext2"}, constraints : {<<"v0.1.0">>, <<"*">>}]
        \cup {[name |-> "k6/x/ext", constraints |-> <<">", "v0.2.0">>]}
DependencyLists == UNION {[1..n -> Dependencies] : n \in 0..MaxDeps}
Requests == [platform : ValidPlatforms, k6 : K6Constraints, deps : DependencyLists]

\* New(ctx, config) with config.Opts.AllowBuildSemvers set: builder.go:95-100.
NewAllowingBuildSemvers ==
    /\ history = << >>
    /\ ~allowBuildSemvers
    /\ allowBuildSemvers' = TRUE
    /\ UNCHANGED <<apiVars, ctxDone, leaseVars, callerVars, faults, history, objects>>

\* A Build call runs from entry to return.  The platforms are
\* interchangeable: the first call names the first of them.
Build(req) ==
    /\ Len(history) < MaxCalls
    /\ history = << >> => req.platform = "linux/amd64"
    /\ LET out == BuildOutcome(req, allowBuildSemvers, objects) IN
          /\ history' = Append(history, [req |-> req, out |-> out])
          /\ objects' = IF out.put THEN objects \cup {out.id} ELSE objects
    /\ UNCHANGED <<apiVars, ctxDone, leaseVars, callerVars, faults, allowBuildSemvers>>

(***************************************************************************)
(* Store.Download of the file store (file.go:276-318)                      *)
(*                                                                         *)
(* A path is a sequence of characters; the store was made with             *)
(* NewFileStore("/a").                                                     *)
(***************************************************************************)

\* The length of the path of an object URL.
MaxPathLen == 5

PathChars == {"/", ".", "a", "b"}
Paths == UNION {[1..n -> PathChars] : n \in 0..MaxPathLen}
\* f.dir.
StoreDir == <<"/", "a">>

\* The elements of a path: what stands between its separators.
RECURSIVE Split(_, _, _)
Split(path, n, element) ==
    IF n > Len(path) THEN <<element>>
    ELSE IF path[n] = "/" THEN <<element>> \o Split(path, n + 1, << >>)
    ELSE Split(path, n + 1, Append(element, path[n]))

\* filepath.Clean on the elements from the n-th on: an empty element and "."
\* are dropped, ".." removes the element before it, is dropped at the root
\* and is kept at the start of a relative path.
RECURSIVE CleanElements(_, _, _, _)
CleanElements(elements, n, out, rooted) ==
    IF n > Len(elements) THEN out
    ELSE IF elements[n] = << >> \/ elements[n] = <<".">>
    THEN CleanElements(elements, n + 1, out, rooted)
    ELSE IF elements[n] # <<".", ".">>
    THEN CleanElements(elements, n + 1, Append(out, elements[n]), rooted)
    ELSE IF out # << >> /\ out[Len(out)] # <<".", ".">>
    THEN CleanElements(elements, n + 1, SubSeq(out, 1, Len(out) - 1), rooted)
    ELSE IF rooted THEN CleanElements(elements, n + 1, out, rooted)
    ELSE CleanElements(elements, n + 1, Append(out, elements[n]), rooted)

\* The elements joined by separators.
RECURSIVE JoinElements(_, _)
JoinElements(elements, n) ==
    IF n > Len(elements) THEN << >>
    ELSE IF n = Len(elements) THEN elements[n]
    ELSE elements[n] \o <<"/">> \o JoinElements(elements, n + 1)

\* filepath.IsAbs(path) and strings.HasPrefix(path, prefix).
IsAbs(path) == path # << >> /\ path[1] = "/"
HasPrefix(path, prefix) ==
    Len(path) >= Len(prefix) /\ SubSeq(path, 1, Len(prefix)) = prefix

\* filepath.Clean(path).
Cleaned(path, out) ==
    IF IsAbs(path) THEN <<"/">> \o out
    ELSE IF out = << >> THEN <<".">>
    ELSE out
Clean(path) ==
    Cleaned(path, JoinElements(CleanElements(Split(path, 1, << >>), 1, << >>,
                                             IsAbs(path)), 1))

\* sanitizePath, after filepath.Clean: file.go:313-317.
Sanitized(path) ==
    IF ~IsAbs(path) \/ ~HasPrefix(path, StoreDir)
    THEN [path |-> << >>, err |-> <<"ErrInvalidURL">>]
    ELSE [path |-> path, err |-> << >>]

\* Store.sanitizePath: file.go:310-318.
sanitizePath(path) == Sanitized(Clean(path))

\* Download of the object URL scheme://path (path is what
\* util.URLToFilePath returns for it), from the switch on: file.go:282-307.
\* `exists` tells whether os.Open finds a file at the path it is given.
Opened(scheme, path, sane, exists) ==
    IF scheme # "file"
    THEN [done |-> TRUE, scheme |-> scheme, path |-> path, err |-> <<"ErrInvalidURL">>,
          opened |-> << >>, found |-> FALSE]
    ELSE IF sane.err # << >>
    THEN [done |-> TRUE, scheme |-> scheme, path |-> path, err |-> sane.err,
          opened |-> << >>, found |-> FALSE]
    ELSE [done |-> TRUE, scheme |-> scheme, path |-> path,
          err |-> IF exists THEN << >> ELSE <<"ErrObjectNotFound">>,
          opened |-> sane.path, found |-> exists]

\* Store.Download, from entry to return.
Download(scheme, path, exists) ==
    /\ ~download.done
    /\ download' = Opened(scheme, path, sanitizePath(path), exists)
    /\ UNCHANGED <<served, received, errv, ctxDone, requestVars, leaseVars, callerVars,
                   faults>>

(***************************************************************************)
(* The build endpoint (pkg/server/server.go) in front of the Builder       *)
(***************************************************************************)

\* http.StatusOK and http.StatusBadRequest.
StatusOK == 200
StatusBadRequest == 400

\* The bodies a client posts: nothing, a JSON text cut short, a JSON object
\* with a field of the wrong type, and the JSON objects of build requests
\* ("platform" may be left out, and decodes as the empty string).
BodyForms == {"empty", "truncated", "mistyped", "object"}
BodyDependencyLists == {deps \in DependencyLists : Len(deps) <= 1}
Bodies ==
    [form : {"object"}, platform : {"", "linux/amd64"}, k6 : K6Constraints,
     deps : BodyDependencyLists]
        \cup [form : BodyForms \ {"object"}, platform : {""}, k6 : {<< >>},
              deps : {<< >>}]

\* json.NewDecoder(r.Body).Decode(&req): server.go:65-66.
Decode(body) ==
    LET req == [platform |-> body.platform, k6 |-> body.k6, deps |-> body.deps] IN
    IF body.form = "object" THEN [req |-> req, err |-> << >>]
    ELSE IF body.form = "empty" THEN [req |-> req, err |-> <<"io.EOF">>]
    ELSE IF body.form = "truncated" THEN [req |-> req, err |-> <<"io.ErrUnexpectedEOF">>]
    ELSE [req |-> req, err |-> <<"json.UnmarshalTypeError">>]

\* k6build.Artifact{}, and the Artifact that Build returns with a nil error.
ZeroArtifact == [id |-> << >>, dependencies |-> NoDependencies, platform |-> ""]
ArtifactOf(req, out) ==
    [id |-> out.id, dependencies |-> out.dependencies, platform |-> req.platform]

\* api.BuildResponse, and the JSON object Encode writes for it: a nil Error
\* is left out, an Artifact{} has no field to show.
BuildResponse(err, artifact) == [error |-> err, artifact |-> artifact]
ErrorPopulated(resp) == resp.error # << >>
ArtifactPopulated(resp) ==
    \/ resp.artifact.id # << >>
    \/ resp.artifact.platform # ""
    \/ DOMAIN resp.artifact.dependencies # {}

\* The deferred function writing a body on success too.
Deferred_Always(resp) == <<resp>>

\* The deferred function of the handler: server.go:58-63.
Deferred(resp) == IF resp.error # << >> THEN <<resp>> ELSE << >>

\* The handler, when the body does not decode: server.go:67-71.
Refuse(err) ==
    [status |-> StatusBadRequest,
     written |-> Deferred(BuildResponse(NewWrappedError("ErrInvalidRequest", err),
                                        ZeroArtifact)),
     called |-> FALSE, out |-> Failure(<< >>, << >>, {})]

\* The handler answering a failed build with status 500.
Answer_FailureIsServerError(req, out) ==
    IF out.err # << >>
    THEN [status |-> 500,
          written |-> Deferred(BuildResponse(NewWrappedError("ErrBuildFailed", out.err),
                                             ZeroArtifact)),
          called |-> TRUE, out |-> out]
    ELSE [status |-> StatusOK,
          written |-> <<BuildResponse(<< >>, ArtifactOf(req, out))>>
                          \o Deferred(BuildResponse(<< >>, ArtifactOf(req, out))),
          called |-> TRUE, out |-> out]

\* The handler, when a.srv.Build returned `out` for the decoded request:
\* server.go:81-92, and the deferred function.
Answer(req, out) ==
    IF out.err # << >>
    THEN [status |-> StatusOK,
          written |-> Deferred(BuildResponse(NewWrappedError("ErrBuildFailed", out.err),
                                             ZeroArtifact)),
          called |-> TRUE, out |-> out]
    ELSE [status |-> StatusOK,
          written |-> <<BuildResponse(<< >>, ArtifactOf(req, out))>>
                          \o Deferred(BuildResponse(<< >>, ArtifactOf(req, out))),
          called |-> TRUE, out |-> out]

\* APIServer.Build on a request with the given body, in front of a Builder
\* configured with `allow` whose store holds the ids `held`: the status, the
\* bodies written, whether Build was called and what it returned:
\* server.go:52-93.
Handle(body, allow, held) ==
    IF Decode(body).err # << >>
    THEN Refuse(Decode(body).err)
    ELSE Answer(Decode(body).req, BuildOutcome(Decode(body).req, allow, held))

\* What serving a request leaves behind: when the handler called Build, the
\* call is one more call on the Builder.
Serve(body, h) ==
    /\ history' = IF h.called
                  THEN Append(history, [req |-> Decode(body).req, out |-> h.out])
                  ELSE history
    /\ objects' = IF h.called /\ h.out.put THEN objects \cup {h.out.id} ELSE objects
    /\ served' = Append(served, [body |-> body, status |-> h.status,
                                 written |-> h.written,
                                 calls |-> Len(history) + (IF h.called THEN 1 ELSE 0)])

\* A POST /build is served from entry to return.
APIServerBuild(body) ==
    /\ Len(served) < MaxCalls
    /\ Serve(body, Handle(body, allowBuildSemvers, objects))
    /\ UNCHANGED <<received, errv, download, ctxDone, leaseVars, callerVars, faults,
                   allowBuildSemvers>>

(***************************************************************************)
(* The build client (pkg/client/client.go)                                 *)
(***************************************************************************)

\* The replies of a server: none (the connection failed), or a status and a
\* body: nothing, a text that is not JSON, or the JSON object of an
\* api.BuildResponse with its error text and its artifact.
Statuses == {StatusOK, StatusBadRequest, 401, 500}
SampleArtifact ==
    [id |-> <<"sha1", "linux/amd64", ":k6", "v0.1.0">>,
     dependencies |-> [n \in {"k6"} |-> "v0.1.0"], platform |-> "linux/amd64"]
Replies ==
    [form : {"object"}, status : Statuses, error : {"", "failed build"},
     artifact : {ZeroArtifact, SampleArtifact}]
        \cup [form : {"empty", "text"}, status : Statuses, error : {""},
              artifact : {ZeroArtifact}]
        \cup [form : {"none"}, status : {0}, error : {""}, artifact : {ZeroArtifact}]

\* json.NewDecoder(resp.Body).Decode(&buildResponse): client.go:110-114.
DecodeResponse(reply) ==
    IF reply.form = "object"
    THEN [error |-> reply.error, artifact |-> reply.artifact, err |-> << >>]
    ELSE IF reply.form = "empty"
    THEN [error |-> "", artifact |-> ZeroArtifact, err |-> <<"io.EOF">>]
    ELSE [error |-> "", artifact |-> ZeroArtifact, err |-> <<"json.SyntaxError">>]

\* What Build returns: an Artifact and a nil error, or Artifact{} and err.
ClientReturns(err, artifact) == [err |-> err, artifact |-> artifact]

\* Build without the check of the status.
Classify_IgnoresStatus(reply) ==
    IF reply.form = "none"
    THEN ClientReturns(<<"ErrRequestFailed", "net.OpError">>, ZeroArtifact)
    ELSE IF DecodeResponse(reply).err # << >>
    THEN ClientReturns(<<"ErrRequestFailed">> \o DecodeResponse(reply).err, ZeroArtifact)
    ELSE IF DecodeResponse(reply).error # ""
    THEN ClientReturns(<<"ErrBuildFailed">>, ZeroArtifact)
    ELSE ClientReturns(<< >>, DecodeResponse(reply).artifact)

\* BuildClient.Build from http.DefaultClient.Do on: client.go:102-124.
\* fmt.Errorf("%w: %w", ErrRequestFailed, err) wraps both errors,
\* fmt.Errorf("%w: %s", kind, buildResponse.Error) the kind only.
Classify(reply) ==
    IF reply.form = "none"
    THEN ClientReturns(<<"ErrRequestFailed", "net.OpError">>, ZeroArtifact)
    ELSE IF DecodeResponse(reply).err # << >>
    THEN ClientReturns(<<"ErrRequestFailed">> \o DecodeResponse(reply).err, ZeroArtifact)
    ELSE IF reply.status # StatusOK
    THEN ClientReturns(<<"ErrRequestFailed">>, ZeroArtifact)
    ELSE IF DecodeResponse(reply).error # ""
    THEN ClientReturns(<<"ErrBuildFailed">>, ZeroArtifact)
    ELSE ClientReturns(<< >>, DecodeResponse(reply).artifact)

\* A Build call of the client, from entry to return, to a server that
\* answers with `reply`.
BuildClientBuild(reply) ==
    /\ Len(received) < MaxCalls
    /\ received' = Append(received, [reply |-> reply, ret |-> Classify(reply)])
    /\ UNCHANGED <<served, errv, download, ctxDone, requestVars, leaseVars, callerVars,
                   faults>>

(***************************************************************************)
(* The error wrapper (error.go)                                            *)
(*                                                                         *)
(* The text of an error is a sequence of tokens.  Two errors are the same  *)
(* Go value (==) when they are the same package-level variable: the third  *)
(* element of an errorString names its variable, "fresh" for a value that  *)
(* no variable holds.                                                      *)
(***************************************************************************)

\* Number of times an error is wrapped (by fmt.Errorf or NewError).
MaxWraps == 3

\* The kinds: package-level variables made with errors.New.
Kinds == {"ErrBuildFailed", "ErrAccessingArtifact"}

\* errors.New(text), held by the variable `ident`.
New(text, ident) == <<"errorString", text, ident>>
\* var K = errors.New("K").
Sentinel(K) == New(<<K>>, K)
\* ErrReasonUnknown = errors.New("reason unknown"): error.go:10.
ErrReasonUnknown == New(<<"reason unknown">>, "ErrReasonUnknown")
\* fmt.Errorf("wrapped %w", err).
Errorf(err) == <<"wrapError", err>>

\* NewError(err, reason): error.go:115-123.
NewError(err, reason) ==
    <<"Error", err, IF reason[1] = "nil" THEN ErrReasonUnknown ELSE reason>>

\* err.Error(): error.go:26-28 for *Error ("%s: %s" prints a nil Reason as
\* %!s(<nil>)).
RECURSIVE Msg(_)
Msg(e) ==
    IF e[1] = "nil" THEN <<"%!s(<nil>)">>
    ELSE IF e[1] = "errorString" THEN e[2]
    ELSE IF e[1] = "wrapError" THEN <<"wrapped ">> \o Msg(e[2])
    ELSE Msg(e[2]) \o <<": ">> \o Msg(e[3])

\* (*Error).Unwrap: error.go:60-62.
Unwrap(e) == e[3]

\* errors.Unwrap(err): the result of err's Unwrap method, nil without one.
errorsUnwrap(err) ==
    IF err[1] = "wrapError" THEN err[2]
    ELSE IF err[1] = "Error" THEN Unwrap(err)
    ELSE Nil

\* (*Error).Is(target): error.go:35-57.
RECURSIVE Is(_, _)
Is(e, target) ==
    IF target[1] = "nil" THEN FALSE
    ELSE \/ Msg(e[2]) = Msg(target)
         \/ e[3][1] # "nil" /\ Msg(e[3]) = Msg(target)
         \/ LET u == errorsUnwrap(e[2]) IN u[1] # "nil" /\ Msg(u) = Msg(target)
         \/ LET u == errorsUnwrap(e[3]) IN u[1] # "nil" /\ Msg(u) = Msg(target)
         \/ Is(e, errorsUnwrap(target))

\* err == target for two non-nil errors: the same variable.  A wrapper made
\* by fmt.Errorf or NewError is a new pointer, equal to no other value.
Identical(err, target) ==
    /\ err[1] = "errorString"
    /\ target[1] = "errorString"
    /\ err[3] # "fresh"
    /\ err[3] = target[3]

\* errors.Is(err, target) of the standard library: down the Unwrap chain,
\* at each error its == and its Is method.
RECURSIVE errorsIs(_, _)
errorsIs(err, target) ==
    IF err[1] = "nil" \/ target[1] = "nil" THEN err[1] = target[1]
    ELSE \/ Identical(err, target)
         \/ err[1] = "Error" /\ Is(err, target)
         \/ LET u == errorsUnwrap(err) IN u[1] # "nil" /\ errorsIs(u, target)

\* AsError(e): the first *Error down the Unwrap chain of e, nil when there
\* is none: error.go:126-132.
RECURSIVE AsError(_)
AsError(e) ==
    IF e[1] = "Error" THEN e
    ELSE IF e[1] = "wrapError" THEN AsError(e[2])
    ELSE Nil

\* A jsonError (error.go:64-67) and the JSON object json.Marshal makes of
\* it: <<"null">>, or the text of "error" and the object of "reason".
NullJson == <<"null">>
jsonError(text, reason) == <<"object", text, reason>>

\* unwrap(e): error.go:82-93.
RECURSIVE unwrap(_)
unwrap(e) ==
    IF e[1] = "nil" THEN NullJson
    ELSE LET err == AsError(e) IN
         IF err[1] = "nil" THEN jsonError(Msg(e), NullJson)
         ELSE jsonError(Msg(err[2]), unwrap(errorsUnwrap(err)))

\* wrap(e): error.go:70-80.
RECURSIVE wrap(_)
wrap(j) ==
    IF j[1] = "null" THEN Nil
    ELSE LET err == New(j[2], "fresh") IN
         IF j[3][1] = "null" THEN err ELSE NewError(err, wrap(j[3]))

\* (*Error).MarshalJSON and (*Error).UnmarshalJSON: error.go:96-111.
MarshalJSON(e) == unwrap(e)
UnmarshalJSON(data) == <<"Error", New(data[2], "fresh"), wrap(data[3])>>

\* The number of wrappers that were applied to make e: each one shows in
\* the text of e, also after e was decoded from JSON.
Wraps(e) ==
    Cardinality({n \in 1..Len(Msg(e)) : Msg(e)[n] \in {"wrapped ", ": "}})

\* A program makes an error of a kind ...
ErrorsNew(K) ==
    /\ errv[1] = "nil"
    /\ errv' = Sentinel(K)
    /\ UNCHANGED <<served, received, download, ctxDone, requestVars, leaseVars,
                   callerVars, faults>>

\* ... wraps it with fmt.Errorf ...
FmtErrorf ==
    /\ errv[1] # "nil"
    /\ Wraps(errv) < MaxWraps
    /\ errv' = Errorf(errv)
    /\ UNCHANGED <<served, received, download, ctxDone, requestVars, leaseVars,
                   callerVars, faults>>

\* ... makes it the head error of a wrapper, with a kind or nil as reason ...
WrapAsErr(reason) ==
    /\ errv[1] # "nil"
    /\ Wraps(errv) < MaxWraps
    /\ errv' = NewError(errv, reason)
    /\ UNCHANGED <<served, received, download, ctxDone, requestVars, leaseVars,
                   callerVars, faults>>

\* ... makes it the reason of a wrapper of kind K ...
WrapAsReason(K) ==
    /\ errv[1] # "nil"
    /\ Wraps(errv) < MaxWraps
    /\ errv' = NewError(Sentinel(K), errv)
    /\ UNCHANGED <<served, received, download, ctxDone, requestVars, leaseVars,
                   callerVars, faults>>

\* ... or sends a wrapper as JSON to a peer, which decodes it.
RoundTrip ==
    /\ errv[1] = "Error"
    /\ errv' = UnmarshalJSON(MarshalJSON(errv))
    /\ UNCHANGED <<served, received, download, ctxDone, requestVars, leaseVars,
                   callerVars, faults>>

(***************************************************************************)
(* Specifications                                                          *)
(***************************************************************************)

\* A step of the store on behalf of caller c.
StoreStep(c) ==
    \/ FileGetStat(c)
    \/ FileGetRead(c)
    \/ FilePutLockObject(c)
    \/ FilePutLock(c)
    \/ FilePutStat(c)
    \/ FilePutMkdir(c)
    \/ FilePutCreate(c)
    \/ FilePutCopy(c)
    \/ FilePutSumOpen(c)
    \/ FilePutSumWrite(c)
    \/ FilePutUnlock(c)
    \/ S3Get(c)
    \/ S3Put(c)

\* A step of caller c's Build.
BuildStep(c) ==
    \/ lockArtifact(c)
    \/ mtxLock(c)
    \/ FoundryBuilds(c)
    \/ FoundryFails(c)
    \/ unlock(c)
    \/ mtxUnlock(c)
    \/ StoreStep(c)

\* Concurrent Build calls on one coordinator, and a peer on the same store.
Next ==
    \/ \E c \in Callers, i \in IDs : StartBuild(c, i)
    \/ \E c \in Callers : BuildStep(c)
    \/ \E i \in IDs : PeerPut(i)

Spec == Init /\ [][Next]_vars

\* Concurrent Build calls on one coordinator that alone uses the store.
\* A Build call always makes progress: no goroutine is starved, and the
\* Foundry and the store answer every call, with a result or an error.
FairNext ==
    \/ \E c \in Callers, i \in IDs : StartBuild(c, i)
    \/ \E c \in Callers : BuildStep(c)

FairSpec == Init /\ [][FairNext]_vars /\ \A c \in Callers : WF_vars(BuildStep(c))

\* Build calls made one after the other on one coordinator that alone uses
\* the store: a call is made when the calls before it have returned and
\* released.
StartBuildAfter(c, i) ==
    /\ \A b \in Callers : pc[b] \in {"idle", "done"}
    /\ StartBuild(c, i)

NextRetry ==
    \/ \E c \in Callers, i \in IDs : StartBuildAfter(c, i)
    \/ \E c \in Callers : BuildStep(c)

SpecRetry == Init /\ [][NextRetry]_vars

\* Concurrent Put and Get calls directly on one store.
NextStore ==
    \/ \E c \in Callers, i \in IDs : StartPut(c, i)
    \/ \E c \in Callers, i \in IDs : StartGet(c, i)
    \/ \E c \in Callers : StoreStep(c)

SpecStore == Init /\ [][NextStore]_vars

\* Clients of a store none of whose calls to the file system or to the
\* bucket fails.
NominalStoreStep(c) == StoreStep(c) /\ NoFault

NominalNextStore ==
    \/ \E c \in Callers, i \in IDs : StartPut(c, i)
    \/ \E c \in Callers, i \in IDs : StartGet(c, i)
    \/ \E c \in Callers : NominalStoreStep(c)

NominalSpecStore == Init /\ [][NominalNextStore]_vars

\* Requests posted to the build endpoint one after the other.
NextServer ==
    \/ NewAllowingBuildSemvers
    \/ \E body \in Bodies : APIServerBuild(body)

SpecServer == Init /\ [][NextServer]_vars

\* Build calls of a client one after the other.
NextClient == \E reply \in Replies : BuildClientBuild(reply)

SpecClient == Init /\ [][NextClient]_vars

\* A Download of an object URL from the file store.
NextDownload ==
    \E scheme \in {"file", "http"}, path \in Paths, exists \in BOOLEAN :
        Download(scheme, path, exists)

SpecDownload == Init /\ [][NextDownload]_vars

\* Errors made, wrapped and sent over the wire.
NextError ==
    \/ \E K \in Kinds : ErrorsNew(K)
    \/ FmtErrorf
    \/ \E K \in Kinds : WrapAsErr(Sentinel(K))
    \/ WrapAsErr(Nil)
    \/ \E K \in Kinds : WrapAsReason(K)
    \/ RoundTrip

SpecError == Init /\ [][NextError]_vars

\* Clients of a store that put objects under any id, none of whose calls to
\* the file system or to the bucket fails.
NextStoreIds ==
    \/ \E c \in Callers, i \in StoreIds : StartPut(c, i)
    \/ \E c \in Callers, i \in IDs : StartGet(c, i)
    \/ \E c \in Callers : NominalStoreStep(c)

SpecStoreIds == Init /\ [][NextStoreIds]_vars

\* Clients calling Put and Get on one MemoryStore.
NextMemoryStore ==
    \/ \E c \in Callers, i \in IDs : StartPut(c, i)
    \/ \E c \in Callers, i \in IDs : StartGet(c, i)
    \/ \E c \in Callers : MemoryStoreGet(c)
    \/ \E c \in Callers : MemoryStorePut(c)

SpecMemoryStore == Init /\ [][NextMemoryStore]_vars

\* Processes locking through one bucket, and the passing of time.
NextLease ==
    \/ \E p \in Lockers, i \in IDs, k \in Lockers : LockPutObject(p, i, k)
    \/ \E p \in Lockers : LockList(p)
    \/ \E p \in Lockers : LockRelease(p)
    \/ Tick

SpecLease == Init /\ [][NextLease]_vars

\* Processes locking through one bucket whose requests all succeed.  No
\* process sleeps for ever between two listings, and every holder calls
\* its release.
NominalNextLease ==
    \/ \E p \in Lockers, i \in IDs, k \in Lockers : LockPutObject(p, i, k) /\ NoFault
    \/ \E p \in Lockers : LockList(p) /\ NoFault
    \/ \E p \in Lockers : LockRelease(p) /\ NoFault
    \/ Tick

FairSpecLease ==
    /\ Init /\ [][NominalNextLease]_vars
    /\ \A p \in Lockers : WF_vars(LockList(p) /\ NoFault)
    /\ \A p \in Lockers : WF_vars(LockRelease(p) /\ NoFault)

\* One client calling Build on one Builder, one call after the other.
NextRequest ==
    \/ NewAllowingBuildSemvers
    \/ \E req \in Requests : Build(req)

SpecRequest == Init /\ [][NextRequest]_vars

\* The same client, whose requests may also name a platform that
\* k6foundry.ParsePlatform refuses.
AnyRequests ==
    [platform : ValidPlatforms \cup {"linux"}, k6 : K6Constraints, deps : DependencyLists]

NextRequestAny ==
    \/ NewAllowingBuildSemvers
    \/ \E req \in AnyRequests : Build(req)

SpecRequestAny == Init /\ [][NextRequestAny]_vars

\* The nominal environment: the Foundry and the store answer every call
\* without error, and no other coordinator writes to the store.
NominalStep(c) == BuildStep(c) /\ NoFault

NominalNext ==
    \/ \E c \in Callers, i \in IDs : StartBuild(c, i)
    \/ \E c \in Callers : NominalStep(c)

NominalSpec == Init /\ [][NominalNext]_vars

\* The caller of a Build call in progress cancels the ctx it passed to it
\* (builder.go:104-109).  ctxDone remembers whether the call was then blocked
\* in mtx.Lock() behind the holder of its mutex, or running.
MaxCancels == 1
Cancel(c) ==
    /\ op[c] = "build"
    /\ pc[c] \notin {"idle", "unlock", "mtxUnlock", "done"}
    /\ ctxDone[c] = "no"
    /\ Cardinality({b \in Callers : ctxDone[b] # "no"}) < MaxCancels
    /\ ctxDone' = [ctxDone EXCEPT ![c] =
                       IF pc[c] = "mtxLock" /\ locked[mtx[c]] # 0
                       THEN "blocked" ELSE "running"]
    /\ UNCHANGED <<apiVars, requestVars, leaseVars, callerVars, faults>>

\* The next call of caller c's Build is one that is given ctx and watches
\* it: the Foundry (builder.go:179) and the requests of the S3 store.
\* lockArtifact takes no ctx (builder.go:210) and the file store discards
\* the one it is given (file.go:193, 250).
WatchesCtx(c) ==
    \/ pc[c] = "foundry"
    \/ storeKind = "s3" /\ pc[c] \in {"get", "put"}

\* A step of caller c's Build, no call failing but those made with a
\* cancelled ctx, which all fail.
CtxStep(c) ==
    /\ BuildStep(c)
    /\ IF ctxDone[c] # "no" /\ WatchesCtx(c)
       THEN faults' = faults + 1
       ELSE NoFault

\* Concurrent Build calls whose callers may cancel them.
NextCancel ==
    \/ \E c \in Callers, i \in IDs : StartBuild(c, i)
    \/ \E c \in Callers : CtxStep(c)
    \/ \E c \in Callers : Cancel(c)

SpecCancel == Init /\ [][NextCancel]_vars

(***************************************************************************)
(* Vocabulary of the claims                                                *)
(***************************************************************************)

\* Caller c holds the lock of its id: lockArtifact has returned to it and
\* its release handle has not started.
HoldsLock(c) ==
    /\ op[c] = "build"
    /\ mtx[c] # 0
    /\ locked[mtx[c]] = c
    /\ pc[c] # "mtxUnlock"

\* Caller c is waiting in lockArtifact for its mutex.
WaitsForLock(c) == op[c] = "build" /\ pc[c] = "mtxLock"

\* Caller c is inside the Get..Put section of Build.
GetPutPcs ==
    {"get", "getRead", "foundry", "put", "putLock", "putStat", "putMkdir",
     "putCreate", "putCopy", "putSumOpen", "putSumWrite", "putUnlock"}
InGetPut(c) == op[c] = "build" /\ pc[c] \in GetPutPcs

\* Caller c's Build has invoked the Foundry.
FoundryInvoked(c) == pc[c] = "foundry" \/ foundry[c] # "none"

\* Caller c's Build has returned (result[c] is what it returned).
Returned(c) == op[c] = "build" /\ pc[c] \in {"unlock", "mtxUnlock", "done"}

\* What Store.Get(i) finds: nothing at all (ErrObjectNotFound).
NothingStored(i) ==
    IF storeKind = "file" THEN ~fsDir[i] ELSE bucket[i].st = "absent"

(***************************************************************************)
(* Claims about the coordinator and its lock table                         *)
(***************************************************************************)

\* C1: at every instant at most one caller holds the in-process lock of a
\* given id, for any number of callers and any interleaving of acquire and
\* release.
C1_MutualExclusion ==
    \A a, b \in Callers :
        (a # b /\ HoldsLock(a) /\ HoldsLock(b)) => id[a] # id[b]

\* C2: under concurrent Build calls with identical inputs on one
\* coordinator the Foundry is invoked at most once for that id, and all
\* the callers that have returned received that id and the same checksum.
C2_SingleBuild ==
    \A i \in IDs :
        /\ Cardinality({c \in Callers : id[c] = i /\ FoundryInvoked(c)}) <= 1
        /\ \A a, b \in Callers :
              (Returned(a) /\ Returned(b) /\ id[a] = i /\ id[b] = i)
                  => /\ result[a].id = i
                     /\ result[a].checksum # EmptyString
                     /\ result[a].checksum = result[b].checksum

\* Every caller asked for the same id and has returned; the Foundry ran.
C2_Witness ==
    /\ \A c \in Callers : pc[c] = "done" /\ id[c] = id[1]
    /\ \E c \in Callers : foundry[c] = "built"

\* C3: when Build calls for the same artifact and for a different artifact
\* run concurrently against a store whose Put rejects an id that already
\* exists, every call returns without error.
C3_NoErrorOnConcurrentBuilds ==
    \A c \in Callers : Returned(c) => result[c].err = "nil"

\* Two calls for one artifact and one for another have all returned.
C3_Witness ==
    \E a, b, c \in Callers :
        /\ a # b /\ id[a] = id[b] /\ id[c] # id[a]
        /\ pc[a] = "done" /\ pc[b] = "done" /\ pc[c] = "done"
        /\ result[c].err = "nil"

\* C4: two Build calls with the same fingerprint are strictly serialised
\* (their Get..Put sections never overlap), and once one of them has
\* completed its Put the other does not compile and returns the same id
\* and checksum.
C4_StrictlySerialised ==
    \A a, b \in Callers :
        (a # b /\ op[a] = "build" /\ op[b] = "build" /\ id[a] = id[b])
            => /\ ~(InGetPut(a) /\ InGetPut(b))
               /\ (putRes[a].err = "nil" => ~FoundryInvoked(b))
               /\ (putRes[a].err = "nil" /\ Returned(a) /\ Returned(b))
                     => /\ result[b].id = result[a].id
                        /\ result[b].checksum = result[a].checksum

\* C5: a Build whose Put failed because another builder had persisted the
\* id first returns the Artifact of the stored object, not an error.
C5_DuplicateIsSuccess ==
    \A c \in Callers :
        (Returned(c) /\ putRes[c].cause = "exists")
            => /\ result[c].err = "nil"
               /\ result[c].id = id[c]

\* C8: a Build call that acquired the lock of its id releases it on every
\* exit path: the lock is always eventually released and a call waiting
\* for it does not wait forever.
C8_AlwaysReleased ==
    \A c \in Callers :
        /\ HoldsLock(c) ~> ~HoldsLock(c)
        /\ WaitsForLock(c) ~> ~WaitsForLock(c)

\* A call that failed after acquiring the lock has returned and a later
\* call for the same id holds the lock.
C8_Witness ==
    \E a, b \in Callers :
        /\ a # b /\ id[a] = id[b]
        /\ pc[a] = "done" /\ op[a] = "build" /\ result[a].err # "nil"
        /\ HoldsLock(b)

(***************************************************************************)
(* Claims about the object stores                                          *)
(***************************************************************************)

\* C6: for any id the store holds at most one object: of the Puts of one
\* id at most one succeeds, and a Put that finds the id taken fails with
\* ErrDuplicateObject.
C6_DuplicateFailsDistinctly ==
    \A a \in Callers :
        /\ putRes[a].cause = "exists" => putRes[a].err = "ErrDuplicateObject"
        /\ \A b \in Callers :
              (a # b /\ id[a] = id[b] /\ putRes[a].err = "nil")
                  => putRes[b].err # "nil"

\* C7: in the file store a Put that fails leaves the store unchanged: when
\* every Put of an id has failed, Get finds nothing for that id.
C7_FailedPutLeavesNothing ==
    \A i \in IDs :
        (/\ storeKind = "file"
         /\ \A c \in Callers :
               (op[c] = "put" /\ id[c] = i)
                   => (pc[c] = "done" /\ putRes[c].err # "nil"))
            => NothingStored(i)

(***************************************************************************)
(* Claims about the S3-backed lock                                         *)
(***************************************************************************)

\* The lock object of locker p, and its age.
LockObjectOf(p) == CHOOSE o \in lockObjects : o.id = lockedId[p] /\ o.key = lockID[p]
Age(o) == now - o.ts

\* C9: while a process holds the lock of id and its lock object is not
\* older than the lease duration, no other process's Lock(id) returns
\* successfully: two processes never hold the lock of one id while the
\* lock objects of both are within the lease duration.
C9_LeaseExclusive ==
    \A h, p \in Lockers :
        (h # p /\ lpc[h] = "held" /\ lpc[p] = "held" /\ lockedId[h] = lockedId[p])
            => \/ Age(LockObjectOf(h)) > DefaultLeaseDuration
               \/ Age(LockObjectOf(p)) > DefaultLeaseDuration

\* C10: Lock(id) returns successfully only to the caller whose lock object
\* is the oldest one for id that is not expired, a lock object being
\* expired when it is older than the lease duration: every older lock
\* object for id is older than the lease duration.
C10_GrantedToOldestNotExpired ==
    [][\A p \in Lockers :
          (lpc[p] = "list" /\ lpc'[p] = "held")
              => \A o \in lockObjects :
                    (o.id = lockedId[p] /\ o.ts < LockObjectOf(p).ts)
                        => Age(o) > DefaultLeaseDuration]_vars

(***************************************************************************)
(* Claims about the error handling of Build                                *)
(***************************************************************************)

\* C11: when the Foundry returns an error, Build fails with an error of
\* kind BuildingArtifact whose reason is the Foundry's error, and nothing
\* is put in the store.
C11_FoundryErrorIsBuildingArtifact ==
    \A c \in Callers :
        (Returned(c) /\ foundry[c] = "failed")
            => /\ result[c].err = "ErrBuildingArtifact"
               /\ result[c].reason = "foundry"
               /\ putRes[c] = NoRes

\* C12: in Build, ErrObjectNotFound is the only outcome of Store.Get that
\* leads to the Foundry; after any other error of Get, Build fails with
\* ErrAccessingArtifact and calls neither the Foundry nor Put.
C12_OnlyNotFoundBuilds ==
    \A c \in Callers :
        op[c] = "build" =>
            /\ foundry[c] # "none" => getRes[c].err = "ErrObjectNotFound"
            /\ putRes[c] # NoRes => getRes[c].err = "ErrObjectNotFound"
            /\ (Returned(c) /\ getRes[c].err \notin {"none", "nil", "ErrObjectNotFound"})
                  => result[c].err = "ErrAccessingArtifact"

\* A Build whose Get failed with another error than ErrObjectNotFound has
\* returned.
C12_Witness ==
    \E c \in Callers :
        /\ op[c] = "build" /\ Returned(c)
        /\ getRes[c].err \notin {"none", "nil", "ErrObjectNotFound"}

(***************************************************************************)
(* Claims about the stored bytes and their checksum                        *)
(***************************************************************************)

\* The bytes the store holds for id i (0: none, or not completely written).
StoredBytes(i) ==
    IF storeKind = "file"
    THEN IF fsData[i].st = "full" THEN fsData[i].by ELSE 0
    ELSE IF bucket[i].st = "full" THEN bucket[i].by ELSE 0

\* C18: whenever Store.Get (called by Build or directly) returns an object,
\* its checksum is the SHA-256 of the bytes stored for the id, also when
\* the Get runs while another caller writes that id.
C18_ChecksumOfStoredBytes ==
    \A c \in Callers :
        getRes[c].err = "nil" => getRes[c].checksum = Sha256(StoredBytes(id[c]))

(***************************************************************************)
(* Claims about Build as a function of its request                         *)
(***************************************************************************)

\* The calls made so far.
Calls == 1..Len(history)

\* The names of a dependency list.
Names(deps) == {deps[n].name : n \in 1..Len(deps)}

\* The core constraint is refused before any resolution: build metadata
\* that hasBuildMetadata rejects, or that the Builder does not allow.
CoreRefused(req) ==
    \/ hasBuildMetadata(req.k6).err # << >>
    \/ hasBuildMetadata(req.k6).build # "" /\ ~allowBuildSemvers

\* No catalog entry satisfies the core constraint / the constraint of some
\* dependency of the request.
CoreUnsatisfiable(req) ==
    /\ hasBuildMetadata(req.k6).build = ""
    /\ Satisfying(Catalog["k6"], req.k6) = {}
SomeDependencyUnsatisfiable(req) ==
    \E n \in 1..Len(req.deps) :
        Satisfying(Catalog[req.deps[n].name], req.deps[n].constraints) = {}

Occurrences(deps, d) == Cardinality({n \in 1..Len(deps) : deps[n] = d})
IsPermutation(a, b) ==
    /\ Len(a) = Len(b)
    /\ \A d \in Dependencies : Occurrences(a, d) = Occurrences(b, d)

\* A call returned an Artifact.
Succeeded(k) == history[k].out.err = << >>

\* C14: for any dependency list and any permutation of it, Build with the
\* same platform and core constraint yields the same artifact id.
C14_PermutationSameId ==
    \A j, k \in Calls :
        (/\ history[j].req.platform = history[k].req.platform
         /\ history[j].req.k6 = history[k].req.k6
         /\ IsPermutation(history[j].req.deps, history[k].req.deps)
         /\ Succeeded(j) /\ Succeeded(k))
            => history[j].out.id = history[k].out.id

\* The core version and the versions of the dependencies that the request
\* resolves to.
ResolvedCore(req) ==
    IF hasBuildMetadata(req.k6).build # "" THEN hasBuildMetadata(req.k6).build
    ELSE Resolve("k6", req.k6).version
ResolvedVersions(req) ==
    {<<req.deps[n].name, Resolve(req.deps[n].name, req.deps[n].constraints).version>> :
        n \in 1..Len(req.deps)}

\* C15: two requests that differ in the platform, in the resolved core
\* version, in the set of dependency names or in a resolved dependency
\* version get different artifact ids.
C15_DifferenceSensitive ==
    \A j, k \in Calls :
        (/\ Succeeded(j) /\ Succeeded(k)
         /\ \/ history[j].req.platform # history[k].req.platform
            \/ ResolvedCore(history[j].req) # ResolvedCore(history[k].req)
            \/ Names(history[j].req.deps) # Names(history[k].req.deps)
            \/ ResolvedVersions(history[j].req) # ResolvedVersions(history[k].req))
            => history[j].out.id # history[k].out.id

\* Two calls returned Artifacts for requests that differ in the platform
\* only, and two for requests that differ in a resolved version only.
C15_Witness ==
    /\ Len(history) = 2 /\ Succeeded(1) /\ Succeeded(2)
    /\ history[1].req.platform # history[2].req.platform
    /\ history[1].req.k6 = history[2].req.k6
    /\ history[1].req.deps = history[2].req.deps
    /\ Len(history[1].req.deps) = MaxDeps

C17_DependenciesComplete ==
    \A k \in Calls :
        Succeeded(k) =>
            ({"k6"} \cup Names(history[k].req.deps)) \subseteq DOMAIN history[k].out.dependencies

\* A request with two dependency names was built, then found in the store.
C17_Witness ==
    /\ Len(history) = 2 /\ Succeeded(1) /\ Succeeded(2)
    /\ history[1].out.built /\ history[2].out.hit
    /\ Cardinality(Names(history[2].req.deps)) = 2

\* C19: a Build call that hits the store returns the same dependencies as
\* the Build call that populated the store for that id, for every accepted
\* form of the request, the build-metadata form included.
C19_CachePathFidelity ==
    \A j, k \in Calls :
        (/\ j < k
         /\ history[j].out.put /\ history[k].out.hit
         /\ history[j].out.id = history[k].out.id)
            => history[k].out.dependencies = history[j].out.dependencies

\* The operators of the constraint grammar, and a core constraint in
\* build-metadata form: [op]<version>+<tag>.
Operators ==
    {<< >>, <<"=">>, <<">">>, <<"<">>, <<">", "=">>, <<"<", "=">>, <<"!", "=">>,
     <<"~">>, <<"^">>}
IsBuildMetadataForm(s) ==
    /\ Len(s) >= 3
    /\ s[Len(s) - 2] \in VersionTokens /\ s[Len(s) - 1] = "+" /\ s[Len(s)] \in Tags
    /\ SubSeq(s, 1, Len(s) - 3) \in Operators

\* C20: a core constraint in build-metadata form is accepted only when
\* AllowBuildSemvers is true, the operator is absent or '=' and the base
\* version is v0.0.0, and the Catalog is then not asked for the core; in
\* every other case Build fails with ErrInvalidParameters.
C20_BuildMetadataAccepted ==
    \A k \in Calls :
        LET s == history[k].req.k6
            out == history[k].out
        IN IsBuildMetadataForm(s) =>
              IF /\ allowBuildSemvers
                 /\ SubSeq(s, 1, Len(s) - 3) \in {<< >>, <<"=">>}
                 /\ s[Len(s) - 2] = "v0.0.0"
              THEN /\ "k6" \notin out.consulted
                   /\ ~SomeDependencyUnsatisfiable(history[k].req) => Succeeded(k)
              ELSE ErrorsIs(out.err, "ErrInvalidParameters")

(***************************************************************************)
(* Claims about the error wrapper                                          *)
(***************************************************************************)

\* The kind K is in the error e: e is K, or wraps an error that K is in.
RECURSIVE Occurs(_, _)
Occurs(e, K) ==
    IF e[1] = "errorString" THEN e[3] = K
    ELSE IF e[1] = "wrapError" THEN Occurs(e[2], K)
    ELSE IF e[1] = "Error" THEN Occurs(e[2], K) \/ Occurs(e[3], K)
    ELSE FALSE

\* C25: errors.Is on a wrapper is true for every kind K that is its head
\* kind or is anywhere in what it wraps, however deep, in the head error or
\* in the reason, and for a target that is itself a wrapped K.
C25_IsFindsNestedKind ==
    errv[1] = "Error" =>
        \A K \in Kinds :
            Occurs(errv, K) =>
                /\ errorsIs(errv, Sentinel(K))
                /\ errorsIs(errv, Errorf(Sentinel(K)))

\* C26: the wrapper decoded from the JSON of a wrapper e matches exactly the
\* kinds that e matches.
C26_RoundTripKeepsKinds ==
    errv[1] = "Error" =>
        \A K \in Kinds :
            errorsIs(UnmarshalJSON(MarshalJSON(errv)), Sentinel(K))
                <=> errorsIs(errv, Sentinel(K))

(***************************************************************************)
(* Claims about the build endpoint                                         *)
(***************************************************************************)

\* The number of Build calls made before the n-th request was served, and
\* the outcome of the Build call the n-th request made.
CallsBefore(n) == IF n = 1 THEN 0 ELSE served[n - 1].calls
BuildCalled(n) == served[n].calls = CallsBefore(n) + 1
OutcomeOf(n) == history[served[n].calls].out

\* C21: a request whose body decodes and whose Build fails is answered with
\* status 200 and an error of kind ErrBuildFailed; a request whose body does
\* not decode is answered with status 400 and an error of kind
\* ErrInvalidRequest, and Build is not called for it.
C21_StatusPolicy ==
    \A n \in 1..Len(served) :
        LET s == served[n] IN
        /\ (Decode(s.body).err = << >> /\ BuildCalled(n) /\ OutcomeOf(n).err # << >>)
               => /\ s.status = StatusOK
                  /\ Len(s.written) >= 1
                  /\ ErrorsIs(s.written[1].error, "ErrBuildFailed")
        /\ Decode(s.body).err # << >>
               => /\ s.status = StatusBadRequest
                  /\ Len(s.written) >= 1
                  /\ ErrorsIs(s.written[1].error, "ErrInvalidRequest")
                  /\ s.calls = CallsBefore(n)

C21_Witness ==
    /\ Len(served) = 2
    /\ Decode(served[1].body).err = << >>
    /\ BuildCalled(1)
    /\ OutcomeOf(1).err # << >>
    /\ Decode(served[2].body).err # << >>

\* C22: the handler writes exactly one JSON body for every request, and at
\* most one of its fields artifact and error is populated.
C22_OneBodyOneField ==
    \A n \in 1..Len(served) :
        /\ Len(served[n].written) = 1
        /\ ~(ErrorPopulated(served[n].written[1])
                /\ ArtifactPopulated(served[n].written[1]))

C22_Witness ==
    /\ Len(served) = 2
    /\ ArtifactPopulated(served[1].written[1])
    /\ ErrorPopulated(served[2].written[1])

(***************************************************************************)
(* Claims about the build client                                           *)
(***************************************************************************)

\* C27: the client gives every reply exactly one outcome: ErrRequestFailed
\* for a status other than 200, ErrBuildFailed for status 200 with an error
\* in the response, and the Artifact of the response only for status 200
\* without an error.
C27_RepliesClassified ==
    \A n \in 1..Len(received) :
        LET reply == received[n].reply
            ret == received[n].ret
        IN
        /\ (reply.form # "none" /\ reply.status # StatusOK)
               => ErrorsIs(ret.err, "ErrRequestFailed")
        /\ (reply.form = "object" /\ reply.status = StatusOK /\ reply.error # "")
               => ErrorsIs(ret.err, "ErrBuildFailed")
        /\ ret.err = << >>
               => /\ reply.form = "object"
                  /\ reply.status = StatusOK
                  /\ reply.error = ""
                  /\ ret.artifact = reply.artifact
        /\ ret.err # << >> => ret.artifact = ZeroArtifact
        /\ ~(ErrorsIs(ret.err, "ErrRequestFailed") /\ ErrorsIs(ret.err, "ErrBuildFailed"))

C27_Witness ==
    /\ Len(received) = 2
    /\ received[1].reply.form = "object"
    /\ received[1].reply.status # StatusOK
    /\ received[1].reply.artifact # ZeroArtifact
    /\ received[2].reply.status = StatusOK
    /\ received[2].reply.error # ""

(***************************************************************************)
(* Claims about Download                                                   *)
(***************************************************************************)

\* The cleaned path is in the directory `dir`: it is absolute and its
\* elements start with the elements of dir.
Within(path, dir) ==
    /\ IsAbs(path)
    /\ HasPrefix(Split(path, 1, << >>), Split(dir, 1, << >>))

\* C23: Download rejects with ErrInvalidURL every URL whose cleaned path is
\* not absolute or is not in the root directory of the store, and opens no
\* file for it: every file it opens is in the root directory.
C23_TraversalSafe ==
    (download.done /\ download.scheme = "file")
        => /\ ~Within(Clean(download.path), StoreDir)
                  => /\ ErrorsIs(download.err, "ErrInvalidURL")
                     /\ download.opened = << >>
           /\ download.opened # << >> => Within(download.opened, StoreDir)

(***************************************************************************)
(* Claims about the ids of the store                                       *)
(***************************************************************************)

\* C24: a Put whose id is empty, has a path separator or is a relative
\* component returns an error, and nothing is stored under such an id.
C24_InvalidIdRefused ==
    /\ \A c \in Callers :
           (op[c] = "put" /\ id[c] \in InvalidIds /\ pc[c] = "done")
               => result[c].err # "nil"
    /\ \A i \in InvalidIds : bucket[i].st = "absent"

\* C28: the dependency list the caller passed to Build has, after the call,
\* the order and the content it had before the call.
C28_CallerListKept ==
    \A n \in 1..Len(history) : history[n].out.deps = history[n].req.deps

\* C29: a Build call waits at the lock only behind a call of its own
\* fingerprint: the mutex a waiting call finds locked is held by a call with
\* the same id, never by a call with another id.
C29_WaitsOnlyForSameId ==
    \A c \in Callers :
        (WaitsForLock(c) /\ locked[mtx[c]] # 0) => id[locked[mtx[c]]] = id[c]

\* A call has gone through the lock, the store and its release while an
\* earlier call with another fingerprint is still between Get and Put.
C29_Witness ==
    \E c, d \in Callers :
        /\ d < c
        /\ id[c] # id[d]
        /\ InGetPut(d) /\ HoldsLock(d)
        /\ op[c] = "build" /\ pc[c] = "done" /\ result[c].err = "nil"

\* C30: a Build call whose ctx is cancelled while it is blocked at the lock
\* behind a build of the same fingerprint aborts there: it never goes on
\* into the Get/Foundry/Put section and never returns an artifact.
C30_CancelledWaiterAborts ==
    \A c \in Callers :
        ctxDone[c] = "blocked" => (~InGetPut(c) /\ result[c].err # "nil")

\* C31: in the file store a Get that runs at any point of a Put of the same
\* id returns ErrObjectNotFound or the object with its complete checksum:
\* it never returns an access error, and never an object whose checksum is
\* not yet written.
C31_GetSeesAllOrNothing ==
    storeKind = "file" =>
        \A c \in Callers :
            /\ getRes[c].err \in {"none", "nil", "ErrObjectNotFound"}
            /\ getRes[c].err = "nil" => getRes[c].checksum # EmptyString

\* C32: a stored object is immutable and never evicted: once a Get of an id
\* has returned an object with checksum c, the store keeps answering that
\* id with checksum c, whatever is put afterwards.
C32_Immutable ==
    \A c \in Callers :
        (op[c] = "get" /\ pc[c] = "done" /\ getRes[c].err = "nil")
            => /\ bucket[id[c]].st = "full"
               /\ Sha256(bucket[id[c]].by) = getRes[c].checksum

\* C33: a lock object older than the lease duration is expired: a locker
\* that waits for an id behind lock objects that are all older than the
\* lease duration is granted the lock by its next listing, also when no
\* further locker has arrived after it.
C33_ExpiredHolderPreempted ==
    \A p \in Lockers :
        (/\ lpc[p] = "list"
         /\ \A o \in lockObjects :
                (o.id = lockedId[p] /\ o.key # lockID[p])
                    => /\ Age(o) > DefaultLeaseDuration
                       /\ o.ts < LockObjectOf(p).ts)
            => Granted(SortByLastModified(ListObjectsV2(lockedId[p])), lockID[p])

\* The lock objects of the id of locker p that are older than p's.
OlderLockObjects(p) ==
    {o \in lockObjects : o.id = lockedId[p] /\ o.ts < LockObjectOf(p).ts}

\* No caller blocked in Lock(id) is stuck: some caller of the id holds the
\* lock (and will release it) or is granted the lock by its next listing.
\* Every grant is followed by a release and every locker calls Lock once,
\* so a caller that is never stuck acquires the lock in the end.
NoWaiterStuck ==
    \A p \in Lockers :
        lpc[p] = "list" =>
            \E q \in Lockers :
                /\ lockedId[q] = lockedId[p]
                /\ \/ lpc[q] = "held"
                   \/ /\ lpc[q] = "list"
                      /\ Granted(SortByLastModified(ListObjectsV2(lockedId[q])), lockID[q])

C35_NoOrphan ==
    \A p \in Lockers :
        lpc[p] = "failed" =>
            \A o \in lockObjects : ~(o.id = lockedId[p] /\ o.key = lockID[p])

\* C36: the lock table holds an entry for an id only while some caller
\* holds or waits for the lock of that id: the entry is made by the
\* caller's lockArtifact and is gone once every such caller has released.
C36_NoEntryWithoutCaller ==
    \A i \in IDs :
        mutexes[i] # 0 =>
            \E c \in Callers :
                /\ op[c] = "build" /\ id[c] = i
                /\ WaitsForLock(c) \/ InGetPut(c) \/ pc[c] = "unlock"

\* Two calls for one id, one of which found the entry of the other, have
\* both released, and the table has no entry for the id.
C36_Witness ==
    \E a, b \in Callers :
        /\ a # b /\ id[a] = id[b]
        /\ op[a] = "build" /\ op[b] = "build"
        /\ pc[a] = "done" /\ pc[b] = "done"
        /\ mtx[a] = mtx[b]
        /\ mutexes[id[a]] = 0

\* The request of a call fails before its fingerprint is computed: the
\* platform is malformed, the core constraint is refused, or the Catalog
\* cannot resolve the core or a dependency.
FailsBeforeFingerprint(req) ==
    \/ req.platform \notin ValidPlatforms
    \/ CoreRefused(req)
    \/ CoreUnsatisfiable(req)
    \/ SomeDependencyUnsatisfiable(req)

\* C37: a Build call that fails before fingerprinting returns an error
\* having taken no lock, invoked no Foundry and made no call of the store:
\* the store holds after the call what it held before.
C37_EarlyFailureTouchesNothing ==
    [][Len(history') > Len(history) =>
          LET call == history'[Len(history')] IN
          FailsBeforeFingerprint(call.req) =>
              /\ call.out.err # << >>
              /\ ~call.out.locked /\ ~call.out.hit
              /\ ~call.out.built /\ ~call.out.put
              /\ objects' = objects]_vars

\* After a call that built and stored an artifact, a call naming a
\* malformed platform has failed, and the store holds that one artifact.
C37_Witness ==
    /\ Len(history) = 2
    /\ history[1].out.put
    /\ history[2].req.platform \notin ValidPlatforms
    /\ history[2].out.err # << >>
    /\ objects = {history[1].out.id}

\* C39: whenever a caller holds the lock of an id, the entry of the lock
\* table for that id is the mutex that the caller holds (no release has
\* removed an entry that another acquirer relies on).
C39_EntryIsHeldMutex ==
    \A c \in Callers : HoldsLock(c) => mutexes[id[c]] = mtx[c]

\* Caller c's Build has failed at the Foundry or at Store.Put.
FailedAtFoundryOrPut(c) ==
    /\ op[c] = "build" /\ pc[c] = "done" /\ result[c].err # "nil"
    /\ foundry[c] = "failed" \/ putRes[c].err \notin {"none", "nil"}

\* C38: a failed Build does not poison its id: after a Build call has
\* failed at the Foundry or at Put, a later Build call for the same id,
\* during which the Foundry and the store work without fault, returns an
\* Artifact.
C38_FailureDoesNotPoison ==
    \A a, b \in Callers :
        (/\ a < b /\ id[a] = id[b]
         /\ FailedAtFoundryOrPut(a)
         /\ op[b] = "build" /\ pc[b] = "done"
         /\ result[b].cause # "fault")
            => result[b].err = "nil"

====
